---- MODULE Spec2Model ----
(***************************************************************************)
(* Model of ThreadPresenter (src/main/presenter/threadPresenter/index.ts): *)
(* the generation state table, the three stream-event handlers, the error  *)
(* finalization, stop, the startup recovery pass and the assembly of a     *)
(* streaming completion.                                                   *)
(*                                                                         *)
(* Every handler is an async function.  A handler runs synchronously up to *)
(* an `await`, and is resumed later; between the two any other handler or  *)
(* call may run.  A handler is therefore cut into segments at its awaits:  *)
(* the segment that ends in `await f(x)` contains the call f(x) (the store *)
(* or the provider acts when called), and the next segment starts with the *)
(* resumption.  Suspended handlers are the records of `procs`.             *)
(***************************************************************************)
EXTENDS Integers, Sequences, FiniteSets, TLC

\* ------------------------------------------------------------------ bounds
MaxEvents == 2
MaxTime == 2
MaxMessages == 2

\* ------------------------------------------------------------------ state
VARIABLES
  generatingMessages, \* keys of the Map generatingMessages, in insertion order
  state,              \* the GeneratingMessageState objects, by message id
  assistantMessage,   \* the in-memory AssistantMessage objects, by message id
  conversations,      \* the store: conversation rows by id
  messages,           \* the store: message rows by id
  metadata,           \* the store: metadata column of each message row
  attachments,        \* the store: attachment rows, in insertion order
  providerCalls,      \* calls made on llmProviderPresenter, in order
  thrown,             \* exceptions that left a call, in order
  procs,              \* handlers and calls suspended at an await
  delivered,          \* events and calls in arrival order
  startupMessages,    \* the message rows when the presenter was constructed
  prompt,             \* arguments and results of the prompt functions
  now                 \* Date.now()

vars ==
  <<generatingMessages, state, assistantMessage, conversations, messages,
    metadata, attachments, providerCalls, thrown, procs, delivered,
    startupMessages, prompt, now>>

Null == -1

MsgIds == 1..MaxMessages

ErrorValues == {"boom"}

\* ------------------------------------------------------------------ values

\* String(error) of an Error object: "Error: <message>".
String(error) == <<"Error: ", error>>

\* JSON.stringify of a block list / JSON.parse with the catch that yields [].
Stringify(content) == [valid |-> TRUE, json |-> content]

InvalidJson == [valid |-> FALSE, json |-> <<>>]

Parse(text) == IF text.valid THEN text.json ELSE <<>>

\* approximateTokenSize of the tokenx library: an estimate that grows with
\* the text; here one token per element of the text.
approximateTokenSize(text) == Len(text)

\* JavaScript numbers that come out of a division.
Num(n) == [kind |-> "finite", num |-> n, den |-> 1]

JsDivide(x, y) ==
  IF x.kind # "finite" \/ y.kind # "finite" THEN [kind |-> "NaN", num |-> 0, den |-> 1]
  ELSE IF y.num = 0
       THEN IF x.num = 0
            THEN [kind |-> "NaN", num |-> 0, den |-> 1]
            ELSE [kind |-> "Infinity", num |-> 0, den |-> 1]
       ELSE [kind |-> "finite", num |-> x.num * y.den, den |-> x.den * y.num]

Block(type, content, status) ==
  [type |-> type, content |-> content, status |-> status]

SearchBlock(content, status, total) ==
  [type |-> "search", content |-> content, status |-> status,
   extra |-> [total |-> total]]

IsTextBlock(block) == block.type = "content" \/ block.type = "reasoning_content"

\* ------------------------------------------------------------------ store (messageManager)

getMessage(rows, messageId) ==
  IF messageId \in DOMAIN rows THEN <<rows[messageId]>> ELSE <<>>

updateMessageStatus(rows, messageId, status) ==
  IF messageId \in DOMAIN rows
  THEN [rows EXCEPT ![messageId].status = status]
  ELSE rows

editMessage(rows, messageId, content) ==
  IF messageId \in DOMAIN rows
  THEN [rows EXCEPT ![messageId].content = content]
  ELSE rows

MergeRecord(old, patch) ==
  [k \in DOMAIN old \cup DOMAIN patch |->
     IF k \in DOMAIN patch THEN patch[k] ELSE old[k]]

updateMessageMetadata(md, messageId, patch) ==
  IF messageId \in DOMAIN md
  THEN [md EXCEPT ![messageId] = MergeRecord(@, patch)]
  ELSE md

\* ------------------------------------------------------------------ the machine state

\* The mutable state a segment reads and writes, as one record.
Cur ==
  [generatingMessages |-> generatingMessages, state |-> state,
   assistantMessage |-> assistantMessage, messages |-> messages,
   metadata |-> metadata, attachments |-> attachments,
   providerCalls |-> providerCalls, thrown |-> thrown]

Commit(s) ==
  /\ generatingMessages' = s.generatingMessages
  /\ state' = s.state
  /\ assistantMessage' = s.assistantMessage
  /\ messages' = s.messages
  /\ metadata' = s.metadata
  /\ attachments' = s.attachments
  /\ providerCalls' = s.providerCalls
  /\ thrown' = s.thrown
  /\ UNCHANGED <<conversations, startupMessages, prompt>>

\* The Map generatingMessages: has, delete, set (a key that is set again keeps
\* its place in the iteration order).
Has(map, id) == \E i \in 1..Len(map) : map[i] = id

RECURSIVE MapDelete(_, _)
MapDelete(map, id) ==
  IF map = <<>> THEN <<>>
  ELSE IF Head(map) = id THEN MapDelete(Tail(map), id)
       ELSE <<Head(map)>> \o MapDelete(Tail(map), id)

MapSet(map, id) == IF Has(map, id) THEN map ELSE Append(map, id)

\* What a segment returns: the new machine state, where the handler is now
\* suspended ("done" when it has returned), and its locals (for the end
\* handler, `content` keeps the list it serialized).
Result(s, pc) == [s |-> s, pc |-> pc, message |-> <<>>, content |-> <<>>]

\* ------------------------------------------------------------------ STREAM_EVENTS.RESPONSE

\* Lines 128-158 without the tests of the block type at lines 130 and 145:
\* the text is added to the last block whatever its type.
ResponseBlocks_AnyType(blocks, content, reasoning_content) ==
  LET n == Len(blocks)
      push(type, text) == blocks \o <<Block(type, text, "loading")>>
  IN IF n = 0
     THEN (IF content # <<>> THEN push("content", content)
           ELSE IF reasoning_content # <<>>
                THEN push("reasoning_content", reasoning_content)
                ELSE blocks)
     ELSE [blocks EXCEPT ![n].content = @ \o content \o reasoning_content]

\* Lines 128-158: lastBlock is read once, before either branch.
ResponseBlocks(blocks, content, reasoning_content) ==
  LET n == Len(blocks)
      hasLast == n > 0
      afterContent ==
        IF content # <<>>
        THEN IF hasLast /\ blocks[n].type = "content"
             THEN [blocks EXCEPT ![n].content = @ \o content]
             ELSE (IF hasLast THEN [blocks EXCEPT ![n].status = "success"] ELSE blocks)
                    \o <<Block("content", content, "loading")>>
        ELSE blocks
  IN IF reasoning_content # <<>>
     THEN IF hasLast /\ blocks[n].type = "reasoning_content"
          THEN [afterContent EXCEPT ![n].content = @ \o reasoning_content]
          ELSE (IF hasLast THEN [afterContent EXCEPT ![n].status = "success"]
                ELSE afterContent)
                 \o <<Block("reasoning_content", reasoning_content, "loading")>>
     ELSE afterContent

\* Lines 125-158, after the last await of the handler.
ResponseAppend(s, eventId, content, reasoning_content) ==
  LET s1 == IF reasoning_content # <<>>
            THEN [s EXCEPT !.state[eventId].lastReasoningTime = now]
            ELSE s
  IN Result([s1 EXCEPT !.assistantMessage[eventId].content =
                          ResponseBlocks(@, content, reasoning_content)],
            "done")

\* Lines 118-124.
ResponseReasoning(s, eventId, content, reasoning_content) ==
  IF reasoning_content # <<>> /\ s.state[eventId].reasoningStartTime = Null
  THEN Result([s EXCEPT !.state[eventId].reasoningStartTime = now,
                        !.metadata = updateMessageMetadata(@, eventId,
                           [reasoningStartTime |-> now - s.state[eventId].startTime])],
              "response_reasoning")
  ELSE ResponseAppend(s, eventId, content, reasoning_content)

\* Lines 105-115.
ResponseHandler(s, eventId, content, reasoning_content) ==
  IF ~Has(s.generatingMessages, eventId)
  THEN Result(s, "done")
  ELSE IF s.state[eventId].firstTokenTime = Null
          /\ (content # <<>> \/ reasoning_content # <<>>)
       THEN Result([s EXCEPT !.state[eventId].firstTokenTime = now,
                             !.metadata = updateMessageMetadata(@, eventId,
                                [firstTokenTime |-> now - s.state[eventId].startTime])],
                   "response_first")
       ELSE ResponseReasoning(s, eventId, content, reasoning_content)

\* ------------------------------------------------------------------ STREAM_EVENTS.END

\* Lines 165-167.
AllSuccess(blocks) == [i \in 1..Len(blocks) |-> [blocks[i] EXCEPT !.status = "success"]]

\* Lines 170-175.
RECURSIVE CompletionTokens(_)
CompletionTokens(blocks) ==
  IF blocks = <<>> THEN 0
  ELSE (IF IsTextBlock(Head(blocks)) THEN approximateTokenSize(Head(blocks).content) ELSE 0)
       + CompletionTokens(Tail(blocks))

\* A variant that looks for content blocks only.
WithNoResponseBlock_ContentOnly(blocks) ==
  IF ~(\E i \in 1..Len(blocks) : blocks[i].type = "content")
  THEN Append(blocks, Block("error", <<"common.error.noModelResponse">>, "error"))
  ELSE blocks

\* Lines 178-190.
WithNoResponseBlock(blocks) ==
  IF ~(\E i \in 1..Len(blocks) : IsTextBlock(blocks[i]))
  THEN Append(blocks, Block("error", <<"common.error.noModelResponse">>, "error"))
  ELSE blocks

\* Line 193.
GenerationTime(st) ==
  now - (IF st.firstTokenTime # Null THEN st.firstTokenTime ELSE st.startTime)

\* Line 194.
TokensPerSecond(completionTokens, generationTime) ==
  JsDivide(Num(completionTokens), JsDivide(Num(generationTime), Num(1000)))

\* Lines 192-209.
EndMetadata(st, completionTokens) ==
  LET base ==
        [totalTokens |-> st.promptTokens + completionTokens,
         inputTokens |-> st.promptTokens,
         outputTokens |-> completionTokens,
         generationTime |-> GenerationTime(st),
         firstTokenTime |->
           IF st.firstTokenTime # Null /\ st.firstTokenTime # 0
           THEN st.firstTokenTime - st.startTime ELSE 0,
         tokensPerSecond |-> TokensPerSecond(completionTokens, GenerationTime(st))]
  IN IF st.reasoningStartTime # Null /\ st.lastReasoningTime # Null
     THEN MergeRecord(base,
            [reasoningStartTime |-> st.reasoningStartTime - st.startTime,
             reasoningEndTime |-> st.lastReasoningTime - st.startTime])
     ELSE base

\* Lines 161-212: up to the await of updateMessageMetadata.
EndHandler(s, eventId) ==
  IF ~Has(s.generatingMessages, eventId)
  THEN Result(s, "done")
  ELSE LET blocks == AllSuccess(s.assistantMessage[eventId].content)
       IN Result([s EXCEPT !.assistantMessage[eventId].content = WithNoResponseBlock(blocks),
                           !.metadata = updateMessageMetadata(@, eventId,
                              EndMetadata(s.state[eventId], CompletionTokens(blocks)))],
                 "end_metadata")

\* A variant that removes the state entry with the status write.
EndStatus_DeletesEntry(s, eventId) ==
  Result([s EXCEPT !.messages = updateMessageStatus(@, eventId, "sent"),
                   !.generatingMessages = MapDelete(@, eventId)],
         "end_status")

\* Line 214.
EndStatus(s, eventId) ==
  Result([s EXCEPT !.messages = updateMessageStatus(@, eventId, "sent")], "end_status")

\* Line 215.
EndEdit(s, eventId) ==
  [s |-> [s EXCEPT !.messages =
            editMessage(@, eventId, Stringify(s.assistantMessage[eventId].content))],
   pc |-> "end_edit", message |-> <<>>,
   content |-> s.assistantMessage[eventId].content]

\* Line 216.
EndDelete(s, eventId) ==
  Result([s EXCEPT !.generatingMessages = MapDelete(@, eventId)], "done")

\* ------------------------------------------------------------------ handleMessageError

\* Line 251: the call of getMessage.
HandleMessageError(s, messageId) ==
  [s |-> s, pc |-> "hme_message", message |-> getMessage(s.messages, messageId),
   content |-> <<>>]

\* Lines 263-268.
LoadingToError(blocks) ==
  [i \in 1..Len(blocks) |->
     IF blocks[i].status = "loading" THEN [blocks[i] EXCEPT !.status = "error"]
     ELSE blocks[i]]

\* A variant that pushes no error block.
HmeStatus_NoErrorBlock(s, messageId, errorMessage, message) ==
  IF message = <<>>
  THEN Result(s, "hme_return")
  ELSE [s |-> [s EXCEPT !.messages = updateMessageStatus(@, messageId, "error")],
        pc |-> "hme_status",
        message |-> message,
        content |-> LoadingToError(Parse(message[1].content))]

\* Lines 252-279: after getMessage, up to the await of updateMessageStatus.
HmeStatus(s, messageId, errorMessage, message) ==
  IF message = <<>>
  THEN Result(s, "hme_return")
  ELSE [s |-> [s EXCEPT !.messages = updateMessageStatus(@, messageId, "error")],
        pc |-> "hme_status",
        message |-> message,
        content |-> Append(LoadingToError(Parse(message[1].content)),
                           Block("error", errorMessage, "error"))]

\* Line 280.
HmeEdit(s, messageId, content) ==
  Result([s EXCEPT !.messages = editMessage(@, messageId, Stringify(content))],
         "hme_edit")

\* ------------------------------------------------------------------ STREAM_EVENTS.ERROR

\* Lines 219-223.
ErrorHandler(s, eventId) ==
  IF ~Has(s.generatingMessages, eventId)
  THEN Result(s, "done")
  ELSE HandleMessageError(s, eventId)

\* Line 224.
ErrorDelete(s, eventId) ==
  Result([s EXCEPT !.generatingMessages = MapDelete(@, eventId)], "done")

\* ------------------------------------------------------------------ stopMessageGeneration

\* Lines 1043-1053.
StopBlocks(blocks) ==
  Append([i \in 1..Len(blocks) |->
            IF blocks[i].status = "loading" THEN [blocks[i] EXCEPT !.status = "success"]
            ELSE blocks[i]],
         Block("error", <<"common.error.userCanceledGeneration">>, "cancel"))

\* A variant without the check of line 1041.
StopMessageGeneration_Unguarded(s, messageId) ==
  Result([s EXCEPT !.assistantMessage[messageId].content = StopBlocks(@),
                   !.messages = updateMessageStatus(@, messageId, "error")],
         "stop_status")

\* Lines 1039-1056.
StopMessageGeneration(s, messageId) ==
  IF ~Has(s.generatingMessages, messageId)
  THEN Result(s, "done")
  ELSE Result([s EXCEPT !.assistantMessage[messageId].content = StopBlocks(@),
                        !.messages = updateMessageStatus(@, messageId, "error")],
              "stop_status")

\* Line 1057.
StopEdit(s, messageId) ==
  Result([s EXCEPT !.messages =
            editMessage(@, messageId, Stringify(s.assistantMessage[messageId].content))],
         "stop_edit")

\* Line 1060.
StopStream(s, messageId) ==
  Result([s EXCEPT !.providerCalls =
            Append(@, [call |-> "stopStream", eventId |-> messageId])],
         "stop_stream")

\* Line 1063.
StopDelete(s, messageId) ==
  Result([s EXCEPT !.generatingMessages = MapDelete(@, messageId)], "done")

\* ------------------------------------------------------------------ events, calls and resumptions

\* The handlers that end a generation.
Finalizers == {"END", "ERROR", "stop"}

\* A suspended handler: its arrival number n, the handler, the message id it
\* was called with, the await it is suspended at, its arguments and locals.
\* len0 and alone are history: the number of blocks of the message when the
\* handler started, and whether no other end, error or stop of the same
\* message has been running while this one was.
Proc(n, kind, id, content, reasoning_content, errorMessage, res) ==
  [n |-> n, kind |-> kind, id |-> id, pc |-> res.pc,
   content |-> content, reasoning_content |-> reasoning_content,
   errorMessage |-> errorMessage,
   message |-> res.message, blocks |-> res.content,
   conversations |-> <<>>, pendingMessages |-> <<>>,
   len0 |-> Len(assistantMessage[id].content),
   alone |-> ~(\E q \in procs : q.id = id /\ q.kind \in Finalizers)]

NotAlone(ps, kind, id) ==
  IF kind \in Finalizers
  THEN {IF q.id = id /\ q.kind \in Finalizers THEN [q EXCEPT !.alone = FALSE] ELSE q :
          q \in ps}
  ELSE ps

\* The history of arrivals: the handler, the id, whether the id had a state
\* entry, and for an event that found one the texts it carried.
Arrival(kind, id, content, reasoning_content) ==
  IF Has(generatingMessages, id)
  THEN [kind |-> kind, id |-> id, found |-> TRUE, content |-> content,
        reasoning_content |-> reasoning_content]
  ELSE [kind |-> kind, id |-> id, found |-> FALSE, content |-> <<>>,
        reasoning_content |-> <<>>]

\* The event or call arrives: its first segment runs at once.
Deliver(kind, id, content, reasoning_content, errorMessage, res) ==
  /\ Len(delivered) < MaxEvents
  /\ Commit(res.s)
  /\ delivered' = Append(delivered, Arrival(kind, id, content, reasoning_content))
  /\ procs' =
       IF res.pc = "done" THEN procs
       ELSE NotAlone(procs, kind, id) \cup
              {Proc(Len(delivered) + 1, kind, id, content, reasoning_content,
                    errorMessage, res)}
  /\ UNCHANGED now

\* A suspended handler is resumed and runs its next segment.
Resume(p, res) ==
  /\ Commit(res.s)
  /\ procs' =
       (procs \ {p}) \cup
         (IF res.pc = "done" THEN {}
          ELSE {[p EXCEPT !.pc = res.pc, !.message = res.message,
                          !.blocks = res.content]})
  /\ UNCHANGED <<delivered, now>>

\* The texts an event may carry: nothing, or a text of its own (named by the
\* arrival number of the event, so that no two events carry the same text).
Payloads == {<<>>, <<ToString(Len(delivered) + 1)>>}

EmitResponse ==
  \E id \in MsgIds, content \in Payloads, reasoning_content \in Payloads :
    Deliver("RESPONSE", id, content, reasoning_content, <<>>,
            ResponseHandler(Cur, id, content, reasoning_content))

ResponseAfterFirst ==
  \E p \in procs :
    /\ p.pc = "response_first"
    /\ Resume(p, ResponseReasoning(Cur, p.id, p.content, p.reasoning_content))

ResponseAfterReasoning ==
  \E p \in procs :
    /\ p.pc = "response_reasoning"
    /\ Resume(p, ResponseAppend(Cur, p.id, p.content, p.reasoning_content))

EmitEnd ==
  \E id \in MsgIds : Deliver("END", id, <<>>, <<>>, <<>>, EndHandler(Cur, id))

EndAfterMetadata ==
  \E p \in procs : p.pc = "end_metadata" /\ Resume(p, EndStatus(Cur, p.id))

EndAfterStatus ==
  \E p \in procs : p.pc = "end_status" /\ Resume(p, EndEdit(Cur, p.id))

EndAfterEdit ==
  \E p \in procs : p.pc = "end_edit" /\ Resume(p, EndDelete(Cur, p.id))

EmitError ==
  \E id \in MsgIds, error \in ErrorValues :
    Deliver("ERROR", id, <<>>, <<>>, String(error), ErrorHandler(Cur, id))

\* handleMessageError returns to the ERROR handler, which goes on at line 224.
ErrorReturn(p, res) ==
  IF res.pc = "hme_return" THEN ErrorDelete(res.s, p.id) ELSE res

ErrorAfterGetMessage ==
  \E p \in procs :
    /\ p.kind = "ERROR" /\ p.pc = "hme_message"
    /\ Resume(p, ErrorReturn(p, HmeStatus(Cur, p.id, p.errorMessage, p.message)))

ErrorAfterStatus ==
  \E p \in procs :
    /\ p.kind = "ERROR" /\ p.pc = "hme_status"
    /\ Resume(p, HmeEdit(Cur, p.id, p.blocks))

ErrorAfterEdit ==
  \E p \in procs :
    /\ p.kind = "ERROR" /\ p.pc = "hme_edit"
    /\ Resume(p, ErrorDelete(Cur, p.id))

CallStop ==
  \E id \in MsgIds :
    Deliver("stop", id, <<>>, <<>>, <<>>, StopMessageGeneration(Cur, id))

StopAfterStatus ==
  \E p \in procs : p.pc = "stop_status" /\ Resume(p, StopEdit(Cur, p.id))

StopAfterEdit ==
  \E p \in procs : p.pc = "stop_edit" /\ Resume(p, StopStream(Cur, p.id))

StopAfterStream ==
  \E p \in procs : p.pc = "stop_stream" /\ Resume(p, StopDelete(Cur, p.id))

Tick ==
  /\ now < MaxTime
  /\ now' = now + 1
  /\ UNCHANGED <<generatingMessages, state, assistantMessage, conversations,
                 messages, metadata, attachments, providerCalls, thrown, procs,
                 delivered, startupMessages, prompt>>

\* ------------------------------------------------------------------ a generation in flight

\* A state that counts the first token as already seen.
NewState_FirstTokenSeen(conversationId, startTime, promptTokens) ==
  [conversationId |-> conversationId, startTime |-> startTime,
   firstTokenTime |-> startTime, promptTokens |-> promptTokens,
   reasoningStartTime |-> Null, reasoningEndTime |-> Null,
   lastReasoningTime |-> Null]

\* Lines 470-479, 925-930: the state of a message once startStreamCompletion
\* has called the provider.
NewState(conversationId, startTime, promptTokens) ==
  [conversationId |-> conversationId, startTime |-> startTime,
   firstTokenTime |-> Null, promptTokens |-> promptTokens,
   reasoningStartTime |-> Null, reasoningEndTime |-> Null,
   lastReasoningTime |-> Null]

\* Lines 458-467, 933-938.
NewMetadata(totalTokens) ==
  [totalTokens |-> totalTokens, generationTime |-> 0, firstTokenTime |-> 0,
   tokensPerSecond |-> Num(0), inputTokens |-> 0, outputTokens |-> 0]

Row(role, status, content, conversationId, parentId) ==
  [role |-> role, status |-> status, content |-> content,
   conversationId |-> conversationId, parentId |-> parentId]

\* Lines 29-37 (what the model reads of them).
DEFAULT_SETTINGS == [systemPrompt |-> <<>>, contextLength |-> 1000, artifacts |-> 0]

\* The block list startStreamCompletion leaves when it calls the provider:
\* empty, or the search block of a finished or failed search.
StreamingContents ==
  {<<>>, <<SearchBlock(<<>>, "success", 1)>>,
   <<SearchBlock(String("boom"), "error", 0)>>}

\* Message 1 is being generated (the provider has just been called);
\* message 2 was finished earlier and has no state entry.
Init ==
  /\ now = 1
  /\ generatingMessages = <<1>>
  /\ state = [id \in MsgIds |-> NewState(1, 1, 2)]
  /\ \E content \in StreamingContents :
       /\ assistantMessage =
            [id \in MsgIds |->
               [content |-> IF id = 1 THEN content
                            ELSE <<Block("content", <<"0">>, "success")>>]]
       /\ messages =
            [id \in MsgIds |->
               IF id = 1 THEN Row("assistant", "pending", Stringify(content), 1, 0)
               ELSE Row("assistant", "sent",
                        Stringify(<<Block("content", <<"0">>, "success")>>), 1, 0)]
  /\ metadata = [id \in MsgIds |-> NewMetadata(2)]
  /\ conversations = [c \in {1} |-> [settings |-> DEFAULT_SETTINGS]]
  /\ attachments = <<>>
  /\ providerCalls = <<>>
  /\ thrown = <<>>
  /\ procs = {}
  /\ delivered = <<>>
  /\ startupMessages = <<>>
  /\ prompt = [kind |-> "none"]

Next ==
  \/ EmitResponse
  \/ ResponseAfterFirst
  \/ ResponseAfterReasoning
  \/ EmitEnd
  \/ EndAfterMetadata
  \/ EndAfterStatus
  \/ EndAfterEdit
  \/ EmitError
  \/ ErrorAfterGetMessage
  \/ ErrorAfterStatus
  \/ ErrorAfterEdit
  \/ CallStop
  \/ StopAfterStatus
  \/ StopAfterEdit
  \/ StopAfterStream

\* All events of a generation within one millisecond.
Spec == Init /\ [][Next]_vars

\* The same with the clock running.
NextClock == Next \/ Tick

SpecClock == Init /\ [][NextClock]_vars

Kinds == {"content", "reasoning_content"}

\* Generations in the middle of their streams. Message 2 has just been
\* started. Message 1 is the state after one
\* token event (text "0") was handled at time 1: after a plain assembly a
\* content block, after a failed search a reasoning_content block behind the
\* search block. The token handler stores no block list (lines 105-160), so
\* the row still holds the list startStreamCompletion left.
StreamedOnce(kind) ==
  IF kind = "content"
  THEN [stored |-> <<>>,
        content |-> <<Block("content", <<"0">>, "loading")>>,
        state |-> [NewState(1, 1, 2) EXCEPT !.firstTokenTime = 1]]
  ELSE [stored |-> <<SearchBlock(String("boom"), "error", 0)>>,
        content |-> <<SearchBlock(String("boom"), "error", 0),
                      Block("reasoning_content", <<"0">>, "loading")>>,
        state |-> [NewState(1, 1, 2) EXCEPT !.firstTokenTime = 1,
                                             !.reasoningStartTime = 1,
                                             !.lastReasoningTime = 1]]

InitStreaming ==
  /\ now = 1
  /\ generatingMessages = <<1, 2>>
  /\ \E kind \in Kinds :
       /\ state = [id \in MsgIds |->
                     IF id = 1 THEN StreamedOnce(kind).state ELSE NewState(1, 1, 2)]
       /\ assistantMessage =
            [id \in MsgIds |->
               [content |-> IF id = 1 THEN StreamedOnce(kind).content
                            ELSE <<>>]]
       /\ messages =
            [id \in MsgIds |->
               IF id = 1
               THEN Row("assistant", "pending", Stringify(StreamedOnce(kind).stored), 1, 0)
               ELSE Row("assistant", "pending", Stringify(<<>>), 1, 0)]
  /\ metadata = [id \in MsgIds |-> NewMetadata(2)]
  /\ conversations = [c \in {1} |-> [settings |-> DEFAULT_SETTINGS]]
  /\ attachments = <<>>
  /\ providerCalls = <<>>
  /\ thrown = <<>>
  /\ procs = {}
  /\ delivered = <<>>
  /\ startupMessages = <<>>
  /\ prompt = [kind |-> "none"]

SpecStreaming == InitStreaming /\ [][Next]_vars

\* ------------------------------------------------------------------ initializeUnfinishedMessages

\* The elements of a set of numbers, ascending.
RECURSIVE Ascending(_)
Ascending(S) ==
  IF S = {} THEN <<>>
  ELSE LET m == CHOOSE x \in S : \A y \in S : x <= y
       IN <<m>> \o Ascending(S \ {m})

\* One page of a list (pages are numbered from 1).
Page(list, page, pageSize) ==
  SubSeq(list, (page - 1) * pageSize + 1,
         IF page * pageSize < Len(list) THEN page * pageSize ELSE Len(list))

\* sqlitePresenter.getConversationList: the ids of the conversations.
getConversationList(convs, page, pageSize) ==
  Page(Ascending(DOMAIN convs), page, pageSize)

\* messageManager.getMessageThread: the ids of the messages of a conversation.
getMessageThread(rows, conversationId, page, pageSize) ==
  Page(Ascending({id \in DOMAIN rows : rows[id].conversationId = conversationId}),
       page, pageSize)

\* A variant that does not look at the role.
PendingMessages_AnyRole(rows, thread) ==
  SelectSeq(thread, LAMBDA id : rows[id].status = "pending")

\* Lines 296-298, on the rows as they were read at line 293.
PendingMessages(rows, thread) ==
  SelectSeq(thread,
            LAMBDA id : rows[id].role = "assistant" /\ rows[id].status = "pending")

SessionInterrupted == <<"common.error.sessionInterrupted">>

\* What a segment of the recovery pass returns: as Result, with the message
\* the pass is at and what is left of its two loops.
RecoverResult(res, id, convs, pending) ==
  [s |-> res.s, pc |-> res.pc, message |-> res.message, content |-> res.content,
   id |-> id, conversations |-> convs, pendingMessages |-> pending]

\* Lines 291-293: the next conversation of the loop, up to the await of
\* getMessages; the pass is over when there is none.
RecoverConversation(s, convs) ==
  IF convs = <<>>
  THEN RecoverResult(Result(s, "recover_done"), 0, <<>>, <<>>)
  ELSE RecoverResult(Result(s, "recover_messages"), 0, Tail(convs),
         PendingMessages(s.messages,
                         getMessageThread(s.messages, Head(convs), 1, 1000)))

\* Lines 301-303: the next pending message, up to the await of getMessage in
\* handleMessageError; the next conversation when there is none.
RecoverMessage(s, convs, pending) ==
  IF pending = <<>>
  THEN RecoverConversation(s, convs)
  ELSE RecoverResult(HandleMessageError(s, Head(pending)), Head(pending), convs,
                     Tail(pending))

\* Lines 286-289: the pass as the constructor leaves it, suspended at the
\* await of getConversationList.
RecoverProc(convs) ==
  [n |-> 0, kind |-> "recover", id |-> 0, pc |-> "recover_conversations",
   content |-> <<>>, reasoning_content |-> <<>>,
   errorMessage |-> SessionInterrupted, message |-> <<>>, blocks |-> <<>>,
   conversations |-> getConversationList(convs, 1, 1000),
   pendingMessages |-> <<>>, len0 |-> 0, alone |-> TRUE]

ResumeRecover(p, res) ==
  /\ Commit(res.s)
  /\ procs' =
       (procs \ {p}) \cup
         {[p EXCEPT !.pc = res.pc, !.id = res.id, !.message = res.message,
                    !.blocks = res.content, !.conversations = res.conversations,
                    !.pendingMessages = res.pendingMessages]}
  /\ UNCHANGED <<delivered, now>>

RecoverAfterConversations ==
  \E p \in procs :
    /\ p.pc = "recover_conversations"
    /\ ResumeRecover(p, RecoverConversation(Cur, p.conversations))

RecoverAfterMessages ==
  \E p \in procs :
    /\ p.pc = "recover_messages"
    /\ ResumeRecover(p, RecoverMessage(Cur, p.conversations, p.pendingMessages))

\* handleMessageError returns at line 253 when the message is gone.
RecoverAfterGetMessage ==
  \E p \in procs :
    /\ p.kind = "recover" /\ p.pc = "hme_message"
    /\ LET res == HmeStatus(Cur, p.id, p.errorMessage, p.message)
       IN ResumeRecover(p,
            IF res.pc = "hme_return"
            THEN RecoverMessage(res.s, p.conversations, p.pendingMessages)
            ELSE RecoverResult(res, p.id, p.conversations, p.pendingMessages))

RecoverAfterStatus ==
  \E p \in procs :
    /\ p.kind = "recover" /\ p.pc = "hme_status"
    /\ ResumeRecover(p, RecoverResult(HmeEdit(Cur, p.id, p.blocks), p.id,
                                      p.conversations, p.pendingMessages))

RecoverAfterEdit ==
  \E p \in procs :
    /\ p.kind = "recover" /\ p.pc = "hme_edit"
    /\ ResumeRecover(p, RecoverMessage(Cur, p.conversations, p.pendingMessages))

\* Lines 305-307: the store call the pass is about to make throws; the pass
\* logs the error and ends.
RecoverCatch ==
  \E p \in procs :
    /\ p.kind = "recover" /\ p.pc \notin {"recover_done", "recover_failed"}
    /\ \/ p.pc \in {"hme_message", "hme_status"}
       \/ /\ p.pc = "recover_conversations"
          /\ p.conversations # <<>>
       \/ /\ p.pc \in {"recover_messages", "hme_edit"}
          /\ RecoverMessage(Cur, p.conversations, p.pendingMessages).pc # "recover_done"
    /\ procs' = (procs \ {p}) \cup {[p EXCEPT !.pc = "recover_failed"]}
    /\ UNCHANGED <<generatingMessages, state, assistantMessage, conversations,
                   messages, metadata, attachments, providerCalls, thrown,
                   delivered, startupMessages, prompt, now>>

\* The rows a previous process can have left: a user message, or an assistant
\* message that is pending (empty, or with the block of a search that was
\* running or done), sent or failed.
StartupRows ==
  {Row("user", status, Stringify(<<>>), c, 0) :
     status \in {"pending", "sent"}, c \in {1, 2}}
  \cup
  {Row("assistant", "pending", Stringify(content), c, 0) :
     content \in {<<>>, <<SearchBlock(<<>>, "loading", 0)>>,
                  <<SearchBlock(<<>>, "success", 1)>>},
     c \in {1, 2}}
  \cup
  {Row("assistant", "sent", Stringify(<<Block("content", <<"0">>, "success")>>), c, 0) :
     c \in {1, 2}}
  \cup
  {Row("assistant", "error",
       Stringify(<<Block("error", SessionInterrupted, "error")>>), c, 0) :
     c \in {1, 2}}

\* The presenter has just been constructed over the rows of a previous
\* process: nothing is being generated, and the recovery pass has been
\* started (line 103) and is suspended at its first await.
InitRecover ==
  /\ now = 1
  /\ generatingMessages = <<>>
  /\ state = [id \in MsgIds |-> NewState(1, 1, 0)]
  /\ assistantMessage = [id \in MsgIds |-> [content |-> <<>>]]
  /\ conversations = [c \in {1, 2} |-> [settings |-> DEFAULT_SETTINGS]]
  /\ messages \in [MsgIds -> StartupRows]
  /\ startupMessages = messages
  /\ prompt = [kind |-> "none"]
  /\ metadata = [id \in MsgIds |-> NewMetadata(0)]
  /\ attachments = <<>>
  /\ providerCalls = <<>>
  /\ thrown = <<>>
  /\ procs = {RecoverProc(conversations)}
  /\ delivered = <<>>

NextRecover ==
  \/ RecoverAfterConversations
  \/ RecoverAfterMessages
  \/ RecoverAfterGetMessage
  \/ RecoverAfterStatus
  \/ RecoverAfterEdit
  \/ RecoverCatch

SpecRecover == InitRecover /\ [][NextRecover]_vars

\* ------------------------------------------------------------------ prompt texts

\* A text is a sequence of tokens. The model's user messages carry no files.
getFileContext(files) == IF files = <<>> THEN <<>> ELSE <<"files">>

\* Lines 773-787: with no file that holds the text, the files as they are.
getAnswer(files) == files

UserContent(text, search) == [text |-> text, files |-> <<>>, search |-> search]

\* Lines 833 and 880.
UserText(content) == content.text \o getFileContext(content.files)

\* Lines 790-793.
UserTurn(content) ==
  <<"\n">> \o content.text \o <<"\n">>
    \o getFileContext(getAnswer(content.files)) \o <<"\n">>

RECURSIVE Join(_, _)
Join(texts, separator) ==
  IF texts = <<>> THEN <<>>
  ELSE IF Len(texts) = 1 THEN texts[1]
  ELSE texts[1] \o separator \o Join(Tail(texts), separator)

\* Lines 70-77.
RECURSIVE SourceLines(_, _)
SourceLines(results, index) ==
  IF results = <<>> THEN <<>>
  ELSE <<<<"source", ToString(index), results[1].title, "URL:", results[1].url,
           "content:", results[1].content, "---">>>>
       \o SourceLines(Tail(results), index + 1)

formatSearchResults(results) == Join(SourceLines(results, 1), <<"\n\n">>)

\* Lines 49-66 and 79-84.
generateSearchPrompt(query, results) ==
  <<"SEARCH_PROMPT_TEMPLATE", "<search_results>">> \o formatSearchResults(results)
    \o <<"</search_results>", "<user_query>">> \o query \o <<"</user_query>">>

\* ContentEnricher.enrichUserMessageWithUrlContent.
enrichUserMessageWithUrlContent(userContent, urlResults) ==
  userContent \o <<"url:">> \o formatSearchResults(urlResults)

\* The elements of JSON.stringify of a block list, as a text (line 834).
RECURSIVE JsonText(_)
JsonText(blocks) ==
  IF blocks = <<>> THEN <<>>
  ELSE <<Head(blocks).type>> \o Head(blocks).content \o <<Head(blocks).status>>
       \o JsonText(Tail(blocks))

\* ------------------------------------------------------------------ the prompt assembler

\* messageManager.getMessage and its kin hand out messages with parsed
\* content.
ToMessage(rows, id) ==
  [id |-> id, role |-> rows[id].role, content |-> rows[id].content.json,
   parentId |-> rows[id].parentId, conversationId |-> rows[id].conversationId]

RECURSIVE ToMessages(_, _)
ToMessages(rows, ids) ==
  IF ids = <<>> THEN <<>>
  ELSE <<ToMessage(rows, Head(ids))>> \o ToMessages(rows, Tail(ids))

\* Math.ceil(x / y) of line 421.
Ceil(x, y) == IF x % y = 0 THEN x \div y ELSE x \div y + 1

\* Lines 421-424.
MessageCount(contextLength) ==
  IF Ceil(contextLength, 300) < 2 THEN 2 ELSE Ceil(contextLength, 300)

\* messageManager.getContextMessages: the last messages of the conversation,
\* oldest first.
getContextMessages(rows, conversationId, messageCount) ==
  LET thread == Ascending({id \in DOMAIN rows :
                             rows[id].conversationId = conversationId})
  IN ToMessages(rows,
       SubSeq(thread,
              IF Len(thread) > messageCount THEN Len(thread) - messageCount + 1
              ELSE 1,
              Len(thread)))

\* messageManager.getLastUserMessage: <<>> when the conversation has none.
getLastUserMessage(rows, conversationId) ==
  LET users == {id \in DOMAIN rows :
                  rows[id].conversationId = conversationId /\ rows[id].role = "user"}
  IN IF users = {} THEN <<>>
     ELSE <<ToMessage(rows, CHOOSE id \in users : \A other \in users : other <= id)>>

\* Lines 565-571, on the thread read at line 558.
HistorySlice(thread, message, limit) ==
  LET at == {i \in 1..Len(thread) : thread[i].id = message.id}
  IN IF at = {} THEN <<message>>
     ELSE LET targetIndex == CHOOSE i \in at : \A j \in at : i <= j
              from == IF targetIndex - limit + 1 > 1 THEN targetIndex - limit + 1
                      ELSE 1
          IN SubSeq(thread, from, targetIndex)

\* Lines 831-835.
MsgTokens(msg) ==
  approximateTokenSize(IF msg.role = "user" THEN UserText(msg.content)
                       ELSE <<"[">> \o JsonText(msg.content) \o <<"]">>)

\* Lines 828-843: messages newest first, selected oldest first.
RECURSIVE SelectMessages(_, _, _, _)
SelectMessages(messages_, currentLength, remainingContextLength, selectedMessages) ==
  IF messages_ = <<>> THEN selectedMessages
  ELSE IF currentLength + MsgTokens(Head(messages_)) <= remainingContextLength
  THEN SelectMessages(Tail(messages_), currentLength + MsgTokens(Head(messages_)),
                      remainingContextLength,
                      <<Head(messages_)>> \o selectedMessages)
  ELSE selectedMessages

RECURSIVE Reverse(_)
Reverse(list) ==
  IF list = <<>> THEN <<>> ELSE Reverse(Tail(list)) \o <<Head(list)>>

\* Lines 812-818.
ReservedTokens(searchPrompt, systemPrompt, enrichedUserMessage) ==
  (IF searchPrompt # <<>> THEN approximateTokenSize(searchPrompt) ELSE 0)
  + (IF systemPrompt # <<>> THEN approximateTokenSize(systemPrompt) ELSE 0)
  + approximateTokenSize(enrichedUserMessage)

\* The selection walking the history oldest first.
SelectContext_OldestFirst(contextMessages, userMessage, contextLength, reservedTokens) ==
  IF contextLength - reservedTokens > 0
  THEN SelectMessages(
         SelectSeq(contextMessages, LAMBDA msg : msg.id # userMessage.id),
         0, contextLength - reservedTokens, <<>>)
  ELSE <<>>

\* The selection without the test of line 821.
SelectContext_Unguarded(contextMessages, userMessage, contextLength, reservedTokens) ==
  SelectMessages(
    Reverse(SelectSeq(contextMessages, LAMBDA msg : msg.id # userMessage.id)),
    0, contextLength - reservedTokens, <<>>)

\* Lines 821-848.
SelectContext(contextMessages, userMessage, contextLength, reservedTokens) ==
  IF contextLength - reservedTokens > 0
  THEN SelectMessages(
         Reverse(SelectSeq(contextMessages, LAMBDA msg : msg.id # userMessage.id)),
         0, contextLength - reservedTokens, <<>>)
  ELSE <<>>

Entry(role, content) == [role |-> role, content |-> content]

\* Lines 853-874; artifactsPrompt is read only when artifacts is 1.
SystemEntries(systemPrompt, artifacts, artifactsPrompt) ==
  IF systemPrompt # <<>>
  THEN IF artifacts = 1
       THEN <<Entry("system", systemPrompt \o <<"\n\n">> \o artifactsPrompt)>>
       ELSE <<Entry("system", systemPrompt)>>
  ELSE IF artifacts = 1 THEN <<Entry("system", artifactsPrompt)>> ELSE <<>>

RECURSIVE ContentTexts(_)
ContentTexts(blocks) ==
  IF blocks = <<>> THEN <<>>
  ELSE (IF Head(blocks).type = "content" THEN <<Head(blocks).content>> ELSE <<>>)
       \o ContentTexts(Tail(blocks))

\* Lines 878-884.
Rendered(msg) ==
  IF msg.role = "user" THEN UserText(msg.content)
  ELSE Join(ContentTexts(msg.content), <<"\n">>)

\* Lines 877-894.
RECURSIVE ContextEntries(_)
ContextEntries(contextMessages) ==
  IF contextMessages = <<>> THEN <<>>
  ELSE (IF Head(contextMessages).role = "assistant"
           /\ Rendered(Head(contextMessages)) = <<>>
        THEN <<>>
        ELSE <<Entry(Head(contextMessages).role, Rendered(Head(contextMessages)))>>)
       \o ContextEntries(Tail(contextMessages))

\* The merge pass with every entry written as a continuation of the one before.
RECURSIVE MergeMessages_LeadingNewline(_, _)
MergeMessages_LeadingNewline(formattedMessages, mergedMessages) ==
  IF formattedMessages = <<>> THEN mergedMessages
  ELSE LET currentMessage == Head(formattedMessages)
           last == Len(mergedMessages)
       IN MergeMessages_LeadingNewline(
            Tail(formattedMessages),
            IF last > 0 /\ mergedMessages[last].role = currentMessage.role
            THEN [mergedMessages EXCEPT
                    ![last].content = @ \o <<"\n">> \o currentMessage.content]
            ELSE Append(mergedMessages,
                        [currentMessage EXCEPT !.content = <<"\n">> \o @]))

\* No merge pass.
MergeMessages_None(formattedMessages, mergedMessages) ==
  mergedMessages \o formattedMessages

\* Lines 902-913.
RECURSIVE MergeMessages(_, _)
MergeMessages(formattedMessages, mergedMessages) ==
  IF formattedMessages = <<>> THEN mergedMessages
  ELSE LET currentMessage == Head(formattedMessages)
           last == Len(mergedMessages)
       IN MergeMessages(
            Tail(formattedMessages),
            IF last > 0 /\ mergedMessages[last].role = currentMessage.role
            THEN [mergedMessages EXCEPT
                    ![last].content = @ \o <<"\n">> \o currentMessage.content]
            ELSE Append(mergedMessages, currentMessage))

\* Lines 918-921.
RECURSIVE PromptTokens(_)
PromptTokens(formattedMessages) ==
  IF formattedMessages = <<>> THEN 0
  ELSE approximateTokenSize(Head(formattedMessages).content)
       + PromptTokens(Tail(formattedMessages))

\* Lines 803-809: [] is a truthy value, null is not.
SearchPrompt(userContent, searchResults) ==
  IF searchResults.set THEN generateSearchPrompt(userContent, searchResults.list)
  ELSE <<>>

EnrichedUserMessage(userContent, urlResults) ==
  IF Len(urlResults) > 0 THEN enrichUserMessageWithUrlContent(userContent, urlResults)
  ELSE userContent

\* Lines 850-900: the list before the merge pass.
UnmergedMessages(settings, artifactsPrompt, contextMessages, searchPrompt, enrichedUserMessage) ==
  SystemEntries(settings.systemPrompt, settings.artifacts, artifactsPrompt)
    \o ContextEntries(contextMessages)
    \o <<Entry("user", IF searchPrompt # <<>> THEN searchPrompt
                       ELSE enrichedUserMessage)>>

\* Lines 850-915: the list for the provider.
FormattedMessages(settings, artifactsPrompt, contextMessages, searchPrompt, enrichedUserMessage) ==
  MergeMessages(
    UnmergedMessages(settings, artifactsPrompt, contextMessages, searchPrompt,
                     enrichedUserMessage),
    <<>>)

\* ------------------------------------------------------------------ startStreamCompletion

\* The errors the code itself raises (lines 638, 751, 756, 555, 764).
StateNotFound == "state not found"
MessageNotFound == "message not found"
UserMessageNotFound == "user message not found"

NoResults == [set |-> FALSE, list |-> <<>>]

\* A call of startStreamCompletion, suspended at line 736: its arguments, the
\* state entry it found (id is state.message.id), and its locals. `awaited`
\* is what the store call it is suspended at returns.
SscProc(n, conversationId, queryMsgId, id) ==
  [n |-> n, kind |-> "ssc", id |-> id, pc |-> "ssc_conversation",
   conversationId |-> conversationId, queryMsgId |-> queryMsgId,
   awaited |-> <<conversations[conversationId]>>,
   settings |-> DEFAULT_SETTINGS, userMessage |-> <<>>, contextMessages |-> <<>>,
   urlResults |-> <<>>, searchResults |-> NoResults, query |-> <<>>,
   rewrittenQuery |-> <<>>, results |-> <<>>, formattedMessages |-> <<>>,
   rejected |-> FALSE, error |-> "", message |-> <<>>, blocks |-> <<>>]

\* The call is suspended at the await named pc, whose call returns nothing
\* the code reads (Step) or returns value (Await).
Step(s, p, pc) ==
  [s |-> s, p |-> [p EXCEPT !.pc = pc, !.awaited = <<>>, !.rejected = FALSE]]

Await(s, p, pc, value) ==
  [s |-> s, p |-> [p EXCEPT !.pc = pc, !.awaited = value, !.rejected = FALSE]]

\* Lines 728-736.
StartStreamCompletion(s, n, conversationId, queryMsgId) ==
  LET found == SelectSeq(s.generatingMessages,
                         LAMBDA id : s.state[id].conversationId = conversationId)
  IN IF found = <<>> THEN <<>>
     ELSE <<SscProc(n, conversationId, queryMsgId, Head(found))>>

\* Lines 948-950: the catch, up to the await of getMessage in
\* handleMessageError.
Catch(s, p, error) ==
  Step(s, [p EXCEPT !.error = error,
                    !.message = HandleMessageError(s, p.id).message],
       "catch_message")

\* Line 951, and a rejection of line 736, which no catch surrounds (caught
\* tells the two apart).
Throw(s, p, error) ==
  Step([s EXCEPT !.thrown = Append(@, [n |-> p.n, error |-> error,
                                       caught |-> p.pc # "ssc_conversation"])],
       p, "done")

\* Lines 252-279 for the catch; line 951 when handleMessageError returns at
\* line 253.
CatchStatus(s, p) ==
  LET res == HmeStatus(s, p.id, String(p.error), p.message)
  IN IF res.pc = "hme_return" THEN Throw(s, p, p.error)
     ELSE Step(res.s, [p EXCEPT !.blocks = res.content], "catch_status")

\* Line 280 for the catch.
CatchEdit(s, p) == Step(HmeEdit(s, p.id, p.blocks).s, p, "catch_edit")

\* Lines 737-766: after getConversation, up to the first lookup.
SscLookup(s, p) ==
  LET q == [p EXCEPT !.settings = p.awaited[1].settings]
  IN IF p.queryMsgId # Null
     THEN Await(s, q, "ssc_queryMessage", getMessage(s.messages, p.queryMsgId))
     ELSE Await(s, q, "ssc_lastUserMessage",
                getLastUserMessage(s.messages, p.conversationId))

\* Lines 748-753.
SscQueryMessage(s, p) ==
  IF p.awaited = <<>> \/ p.awaited[1].parentId = 0
  THEN Catch(s, p, MessageNotFound)
  ELSE Await(s, p, "ssc_userMessage",
             IF p.awaited[1].parentId \in DOMAIN s.messages
             THEN <<ToMessage(s.messages, p.awaited[1].parentId)>> ELSE <<>>)

\* Lines 753-759 and 553.
SscUserMessage(s, p) ==
  IF p.awaited = <<>>
  THEN Catch(s, p, MessageNotFound)
  ELSE Await(s, [p EXCEPT !.userMessage = p.awaited], "history_message",
             IF p.awaited[1].id \in DOMAIN s.messages
             THEN <<ToMessage(s.messages, p.awaited[1].id)>> ELSE <<>>)

\* Lines 554-562.
HistoryMessage(s, p) ==
  IF p.awaited = <<>>
  THEN Catch(s, p, MessageNotFound)
  ELSE Await(s, [p EXCEPT !.message = p.awaited], "history_thread",
             ToMessages(s.messages,
                        getMessageThread(s.messages, p.awaited[1].conversationId, 1,
                                         p.settings.contextLength * 2)))

\* Line 795: the call of extractAndEnrichUrls.
SscUrls(s, p) == Step(s, p, "ssc_urls")

\* Lines 565-571, 759, 769-795.
HistoryThread(s, p) ==
  SscUrls(s, [p EXCEPT !.contextMessages =
                         HistorySlice(p.awaited, p.message[1],
                                      p.settings.contextLength),
                       !.message = <<>>])

\* Lines 762-766 and 419.
SscLastUserMessage(s, p) ==
  IF p.awaited = <<>>
  THEN Catch(s, p, UserMessageNotFound)
  ELSE Await(s, [p EXCEPT !.userMessage = p.awaited], "context_conversation",
             <<conversations[p.conversationId]>>)

\* Lines 421-425.
ContextConversation(s, p) ==
  Await(s, p, "context_messages",
        getContextMessages(s.messages, p.conversationId,
                           MessageCount(p.awaited[1].settings.contextLength)))

\* Lines 766, 769-795.
ContextMessages(s, p) == SscUrls(s, [p EXCEPT !.contextMessages = p.awaited])

\* Lines 803-848 and 850-938 with the artifacts prompt at hand: up to the
\* await of updateMessageMetadata, which the store rejects when p.rejected.
SscFinish(s, p, artifactsPrompt) ==
  LET userContent == UserTurn(p.userMessage[1].content)
      searchPrompt == SearchPrompt(userContent, p.searchResults)
      enrichedUserMessage == EnrichedUserMessage(userContent, p.urlResults)
      contextMessages ==
        SelectContext(p.contextMessages, p.userMessage[1], p.settings.contextLength,
                      ReservedTokens(searchPrompt, p.settings.systemPrompt,
                                     enrichedUserMessage))
      formattedMessages ==
        FormattedMessages(p.settings, artifactsPrompt, contextMessages, searchPrompt,
                          enrichedUserMessage)
      promptTokens == PromptTokens(formattedMessages)
      set == [s EXCEPT !.generatingMessages = MapSet(@, p.id),
                       !.state[p.id].startTime = now,
                       !.state[p.id].firstTokenTime = Null,
                       !.state[p.id].promptTokens = promptTokens]
      q == [p EXCEPT !.contextMessages = contextMessages,
                     !.formattedMessages = formattedMessages]
  IN IF p.rejected
     THEN Step(set, q, "ssc_metadata_rejected")
     ELSE Step([set EXCEPT !.metadata =
                  updateMessageMetadata(@, p.id,
                    [totalTokens |-> promptTokens, generationTime |-> 0,
                     firstTokenTime |-> 0, tokensPerSecond |-> Num(0)])],
               q, "ssc_metadata")

\* Lines 803-848, and the await of getArtifactsPrompt (855, 868) when
\* artifacts is 1.
SscAssemble(s, p) ==
  IF p.settings.artifacts = 1 THEN [s |-> s, p |-> [p EXCEPT !.pc = "ssc_artifacts"]]
  ELSE SscFinish(s, p, <<>>)

\* Lines 940-947: the call of the provider.
SscProvider(s, p) ==
  Step([s EXCEPT !.providerCalls =
          Append(@, [call |-> "startStreamCompletion", eventId |-> p.id,
                     messages |-> p.formattedMessages])],
       p, "ssc_provider")

\* Lines 636-652: startStreamSearch, up to its first editMessage.
StartStreamSearch(s, p, query) ==
  IF ~Has(s.generatingMessages, p.id)
  THEN Catch(s, p, StateNotFound)
  ELSE LET content == <<SearchBlock(<<>>, "loading", 0)>>
                        \o s.assistantMessage[p.id].content
       IN Step([s EXCEPT !.assistantMessage[p.id].content = content,
                         !.messages = editMessage(@, p.id, Stringify(content))],
               [p EXCEPT !.query = query], "search_loading")

\* Lines 795-800.
SscSearch(s, p, urlResults) ==
  LET q == [p EXCEPT !.urlResults = urlResults]
  IN IF p.userMessage[1].content.search
     THEN StartStreamSearch(s, q, UserTurn(p.userMessage[1].content))
     ELSE SscAssemble(s, q)

\* The search block is the first of the list (line 651).
SetSearchBlock(s, p, status, content, total) ==
  LET blocks == [s.assistantMessage[p.id].content EXCEPT
                   ![1] = SearchBlock(content, status, total)]
  IN [s EXCEPT !.assistantMessage[p.id].content = blocks,
               !.messages = editMessage(@, p.id, Stringify(blocks))]

\* Lines 656 and 419.
SearchLoading(s, p) ==
  Await(s, p, "search_context_conversation", <<conversations[p.conversationId]>>)

\* Lines 421-425.
SearchContextConversation(s, p) ==
  Await(s, p, "search_context_messages",
        getContextMessages(s.messages, p.conversationId,
                           MessageCount(p.awaited[1].settings.contextLength)))

\* Lines 657-675 and 606.
SearchContextMessages(s, p) ==
  Await(s, p, "rewrite_conversation",
        IF p.conversationId \in DOMAIN conversations
        THEN <<conversations[p.conversationId]>> ELSE <<>>)

\* Line 678: the call of the search backend.
Search(s, p, optimizedQuery) ==
  Step(s, [p EXCEPT !.query = optimizedQuery], "search_results")

\* Lines 607-622: the call of generateCompletion.
RewriteConversation(s, p) ==
  IF p.awaited = <<>> THEN Search(s, p, p.query)
  ELSE Step([s EXCEPT !.providerCalls =
               Append(@, [call |-> "generateCompletion", eventId |-> Null])],
            p, "rewrite_completion")

trim(text) == SelectSeq(text, LAMBDA token : token # " ")

\* Lines 623-628 and 678; rewrittenQuery is <<>> when generateCompletion
\* threw, <<text>> when it returned.
RewriteCompletion(s, p, rewrittenQuery) ==
  Search(s, [p EXCEPT !.rewrittenQuery = rewrittenQuery],
         IF rewrittenQuery = <<>> \/ trim(rewrittenQuery[1]) = <<>> THEN p.query
         ELSE trim(rewrittenQuery[1]))

\* Lines 681-685.
SearchResults(s, p, results) ==
  Await(SetSearchBlock(s, p, "reading", <<>>, Len(results)),
        [p EXCEPT !.results = results], "search_reading", results)

\* Lines 708-712.
SearchCatch(s, p, error) ==
  Step(SetSearchBlock(s, p, "error", String(error),
                      s.assistantMessage[p.id].content[1].extra.total),
       p, "search_error")

\* The loop of lines 688-701 storing the results last to first.
SearchAttachments_LastFirst(s, p) ==
  IF p.awaited = <<>>
  THEN Step(SetSearchBlock(s, p, "success", <<>>,
                           s.assistantMessage[p.id].content[1].extra.total),
            p, "search_success")
  ELSE Await([s EXCEPT !.attachments =
                Append(@, [messageId |-> p.id, type |-> "search_result",
                           content |-> p.awaited[Len(p.awaited)]])],
             p, "search_attachment", SubSeq(p.awaited, 1, Len(p.awaited) - 1))

\* Lines 688-705: the next attachment, or the last edit. p.awaited is what is
\* left of the loop.
SearchAttachments(s, p) ==
  IF p.awaited = <<>>
  THEN Step(SetSearchBlock(s, p, "success", <<>>,
                           s.assistantMessage[p.id].content[1].extra.total),
            p, "search_success")
  ELSE Await([s EXCEPT !.attachments =
                Append(@, [messageId |-> p.id, type |-> "search_result",
                           content |-> Head(p.awaited)])],
             p, "search_attachment", Tail(p.awaited))

\* Lines 707 and 799.
SearchSuccess(s, p) ==
  SscAssemble(s, [p EXCEPT !.searchResults = [set |-> TRUE, list |-> p.results]])

\* The catch of line 708 raising the error again.
SearchError_Rethrows(s, p) == Catch(s, p, "boom")

\* Lines 713 and 799.
SearchError(s, p) ==
  SscAssemble(s, [p EXCEPT !.searchResults = [set |-> TRUE, list |-> <<>>]])

\* ------------------------------------------------------------------ a call of startStreamCompletion

\* What the services outside the store may return.
UrlResults == {<<>>, <<[title |-> "page", url |-> "url", content |-> "text"]>>}

SearchResultLists ==
  {<<>>, <<[title |-> "hit", url |-> "url", content |-> "text"]>>,
   <<[title |-> "hit", url |-> "url", content |-> "text"],
     [title |-> "more", url |-> "url2", content |-> "text2"]>>}

RewrittenQueries == {<<"rewritten">>, <<" ">>}

ArtifactsPrompt == <<"artifacts">>

\* The message a call may name as queryMsgId: none, the user message 1 (which
\* has no parent) or the assistant message 2.
QueryMsgIds == {Null, 1, 2}

SscResume(p, r) ==
  /\ Commit(r.s)
  /\ procs' = (procs \ {p}) \cup (IF r.p.pc = "done" THEN {} ELSE {r.p})
  /\ UNCHANGED <<delivered, now>>

\* startStreamCompletion is called, once.
CallStartStreamCompletion ==
  \E conversationId \in {1, 2}, queryMsgId \in QueryMsgIds :
    LET started == StartStreamCompletion(Cur, 1, conversationId, queryMsgId)
    IN /\ delivered = <<>>
       /\ delivered' =
            <<[kind |-> "ssc", id |-> IF started = <<>> THEN 0 ELSE started[1].id,
               found |-> started # <<>>, content |-> <<>>,
               reasoning_content |-> <<>>]>>
       /\ procs' = procs \cup {started[i] : i \in 1..Len(started)}
       /\ UNCHANGED <<generatingMessages, state, assistantMessage, conversations,
                      messages, metadata, attachments, providerCalls, thrown,
                      startupMessages, prompt, now>>

\* Line 736 returns, or throws outside the try.
SscAfterConversation ==
  \E p \in procs :
    /\ p.kind = "ssc" /\ p.pc = "ssc_conversation"
    /\ \/ SscResume(p, SscLookup(Cur, p))
       \/ \E error \in ErrorValues : SscResume(p, Throw(Cur, p, error))

\* Line 795 returns or throws.
SscAfterUrls ==
  \E p \in procs :
    /\ p.kind = "ssc" /\ p.pc = "ssc_urls"
    /\ \/ \E urlResults \in UrlResults, rejected \in BOOLEAN :
            SscResume(p, SscSearch(Cur, [p EXCEPT !.rejected = rejected], urlResults))
       \/ \E error \in ErrorValues : SscResume(p, Catch(Cur, p, error))

\* Line 613 returns or throws.
RewriteAfterCompletion ==
  \E p \in procs :
    /\ p.kind = "ssc" /\ p.pc = "rewrite_completion"
    /\ \E rewrittenQuery \in {<<>>} \cup {<<text>> : text \in RewrittenQueries} :
         SscResume(p, RewriteCompletion(Cur, p, rewrittenQuery))

\* Line 678 returns or throws.
SearchAfterResults ==
  \E p \in procs :
    /\ p.kind = "ssc" /\ p.pc = "search_results"
    /\ \/ \E results \in SearchResultLists : SscResume(p, SearchResults(Cur, p, results))
       \/ \E error \in ErrorValues : SscResume(p, SearchCatch(Cur, p, error))

\* Line 855 or 868 returns or throws.
SscAfterArtifacts ==
  \E p \in procs :
    /\ p.kind = "ssc" /\ p.pc = "ssc_artifacts"
    /\ \/ \E rejected \in BOOLEAN :
            SscResume(p, SscFinish(Cur, [p EXCEPT !.rejected = rejected],
                                   ArtifactsPrompt))
       \/ \E error \in ErrorValues : SscResume(p, Catch(Cur, p, error))

\* Line 940 returns or throws.
SscAfterProvider ==
  \E p \in procs :
    /\ p.kind = "ssc" /\ p.pc = "ssc_provider"
    /\ \/ SscResume(p, Step(Cur, p, "done"))
       \/ \E error \in ErrorValues : SscResume(p, Catch(Cur, p, error))

\* Line 748 returns or throws.
SscAfterQueryMessage ==
  \E p \in procs :
    /\ p.kind = "ssc" /\ p.pc = "ssc_queryMessage"
    /\ \/ SscResume(p, SscQueryMessage(Cur, p))
       \/ \E error \in ErrorValues : SscResume(p, Catch(Cur, p, error))

\* Line 753 returns.
SscAfterUserMessage ==
  \E p \in procs :
    /\ p.kind = "ssc" /\ p.pc = "ssc_userMessage"
    /\ SscResume(p, SscUserMessage(Cur, p))

\* Line 553 returns.
HistoryAfterMessage ==
  \E p \in procs :
    /\ p.kind = "ssc" /\ p.pc = "history_message"
    /\ SscResume(p, HistoryMessage(Cur, p))

\* Line 558 returns.
HistoryAfterThread ==
  \E p \in procs :
    /\ p.kind = "ssc" /\ p.pc = "history_thread"
    /\ SscResume(p, HistoryThread(Cur, p))

\* Line 762 returns or throws.
SscAfterLastUserMessage ==
  \E p \in procs :
    /\ p.kind = "ssc" /\ p.pc = "ssc_lastUserMessage"
    /\ \/ SscResume(p, SscLastUserMessage(Cur, p))
       \/ \E error \in ErrorValues : SscResume(p, Catch(Cur, p, error))

\* Line 419 returns (for line 766).
ContextAfterConversation ==
  \E p \in procs :
    /\ p.kind = "ssc" /\ p.pc = "context_conversation"
    /\ SscResume(p, ContextConversation(Cur, p))

\* Line 425 returns (for line 766).
ContextAfterMessages ==
  \E p \in procs :
    /\ p.kind = "ssc" /\ p.pc = "context_messages"
    /\ SscResume(p, ContextMessages(Cur, p))

\* Line 652 returns.
SearchAfterLoading ==
  \E p \in procs :
    /\ p.kind = "ssc" /\ p.pc = "search_loading"
    /\ SscResume(p, SearchLoading(Cur, p))

\* Line 419 returns (for line 656).
SearchAfterContextConversation ==
  \E p \in procs :
    /\ p.kind = "ssc" /\ p.pc = "search_context_conversation"
    /\ SscResume(p, SearchContextConversation(Cur, p))

\* Line 425 returns (for line 656).
SearchAfterContextMessages ==
  \E p \in procs :
    /\ p.kind = "ssc" /\ p.pc = "search_context_messages"
    /\ SscResume(p, SearchContextMessages(Cur, p))

\* Line 606 returns or throws; no try of rewriteUserSearchQuery surrounds it,
\* the one of startStreamSearch (654-708) does.
RewriteAfterConversation ==
  \E p \in procs :
    /\ p.kind = "ssc" /\ p.pc = "rewrite_conversation"
    /\ \/ SscResume(p, RewriteConversation(Cur, p))
       \/ \E error \in ErrorValues : SscResume(p, SearchCatch(Cur, p, error))

\* Line 685 returns.
SearchAfterReading ==
  \E p \in procs :
    /\ p.kind = "ssc" /\ p.pc = "search_reading"
    /\ SscResume(p, SearchAttachments(Cur, p))

\* Line 690 returns.
SearchAfterAttachment ==
  \E p \in procs :
    /\ p.kind = "ssc" /\ p.pc = "search_attachment"
    /\ SscResume(p, SearchAttachments(Cur, p))

\* Line 705 returns.
SearchAfterSuccess ==
  \E p \in procs :
    /\ p.kind = "ssc" /\ p.pc = "search_success"
    /\ \E rejected \in BOOLEAN : SscResume(p, SearchSuccess(Cur, [p EXCEPT !.rejected = rejected]))

\* Line 712 returns.
SearchAfterError ==
  \E p \in procs :
    /\ p.kind = "ssc" /\ p.pc = "search_error"
    /\ \E rejected \in BOOLEAN : SscResume(p, SearchError(Cur, [p EXCEPT !.rejected = rejected]))

\* Line 933 returns.
SscAfterMetadata ==
  \E p \in procs :
    /\ p.kind = "ssc" /\ p.pc = "ssc_metadata"
    /\ SscResume(p, SscProvider(Cur, p))

\* Line 933 throws.
SscAfterMetadataRejected ==
  \E p \in procs :
    /\ p.kind = "ssc" /\ p.pc = "ssc_metadata_rejected"
    /\ \E error \in ErrorValues : SscResume(p, Catch(Cur, p, error))

\* Line 251 returns (for line 950).
CatchAfterGetMessage ==
  \E p \in procs :
    /\ p.kind = "ssc" /\ p.pc = "catch_message"
    /\ SscResume(p, CatchStatus(Cur, p))

\* Line 279 returns (for line 950).
CatchAfterStatus ==
  \E p \in procs :
    /\ p.kind = "ssc" /\ p.pc = "catch_status"
    /\ SscResume(p, CatchEdit(Cur, p))

\* Line 280 returns (for line 950); line 951.
CatchAfterEdit ==
  \E p \in procs :
    /\ p.kind = "ssc" /\ p.pc = "catch_edit"
    /\ SscResume(p, Throw(Cur, p, p.error))

\* The conversation settings the model takes: with and without a system
\* prompt, with and without artifacts, a context length the user turn alone
\* exhausts and the default one.
SettingsChoices ==
  {[DEFAULT_SETTINGS EXCEPT !.systemPrompt = systemPrompt, !.artifacts = artifacts,
                            !.contextLength = contextLength] :
     systemPrompt \in {<<>>, <<"system">>}, artifacts \in {0, 1},
     contextLength \in {4, DEFAULT_SETTINGS.contextLength}}

\* sendMessage has returned: conversation 1 holds an earlier exchange
\* (messages 1..MaxMessages, user and assistant in turn), the new user message
\* and the assistant message created for it, which has a state entry.
UserMessageId == MaxMessages + 1

AssistantMessageId == MaxMessages + 2

InitAssembly ==
  /\ now = 1
  /\ generatingMessages = <<AssistantMessageId>>
  /\ state = [id \in 1..AssistantMessageId |-> NewState(1, 1, 0)]
  /\ assistantMessage = [id \in 1..AssistantMessageId |-> [content |-> <<>>]]
  /\ \E settings \in SettingsChoices : conversations = [c \in {1} |-> [settings |-> settings]]
  /\ \E search \in BOOLEAN :
       messages =
         [id \in 1..AssistantMessageId |->
            IF id = AssistantMessageId
            THEN Row("assistant", "pending", Stringify(<<>>), 1, UserMessageId)
            ELSE IF id = UserMessageId
            THEN Row("user", "sent", Stringify(UserContent(<<"question">>, search)), 1, 0)
            ELSE IF id % 2 = 1
            THEN Row("user", "sent",
                     Stringify(UserContent(<<"question", ToString(id)>>, FALSE)), 1, 0)
            ELSE Row("assistant", "sent",
                     Stringify(<<Block("content", <<"answer", ToString(id)>>, "success")>>),
                     1, id - 1)]
  /\ metadata = [id \in 1..AssistantMessageId |-> NewMetadata(0)]
  /\ attachments = <<>>
  /\ providerCalls = <<>>
  /\ thrown = <<>>
  /\ procs = {}
  /\ delivered = <<>>
  /\ startupMessages = <<>>
  /\ prompt = [kind |-> "none"]

NextAssembly ==
  \/ CallStartStreamCompletion
  \/ SscAfterConversation
  \/ SscAfterUrls
  \/ RewriteAfterCompletion
  \/ SearchAfterResults
  \/ SscAfterArtifacts
  \/ SscAfterProvider
  \/ SscAfterQueryMessage
  \/ SscAfterUserMessage
  \/ HistoryAfterMessage
  \/ HistoryAfterThread
  \/ SscAfterLastUserMessage
  \/ ContextAfterConversation
  \/ ContextAfterMessages
  \/ SearchAfterLoading
  \/ SearchAfterContextConversation
  \/ SearchAfterContextMessages
  \/ RewriteAfterConversation
  \/ SearchAfterReading
  \/ SearchAfterAttachment
  \/ SearchAfterSuccess
  \/ SearchAfterError
  \/ SscAfterMetadata
  \/ SscAfterMetadataRejected
  \/ CatchAfterGetMessage
  \/ CatchAfterStatus
  \/ CatchAfterEdit

SpecAssembly == InitAssembly /\ [][NextAssembly]_vars

\* stopMessageGeneration is called for the message being assembled.
CallStopAssembling ==
  Deliver("stop", AssistantMessageId, <<>>, <<>>, <<>>,
          StopMessageGeneration(Cur, AssistantMessageId))

\* A call of startStreamCompletion and a stop of its message, in any order
\* and with their awaits interleaved.
NextAssemblyStop ==
  \/ NextAssembly
  \/ CallStopAssembling
  \/ StopAfterStatus
  \/ StopAfterEdit
  \/ StopAfterStream

SpecAssemblyStop == InitAssembly /\ [][NextAssemblyStop]_vars

\* ------------------------------------------------------------------ what the claims speak of

\* The handler p returns in this step.
Completes(p) == p \in procs /\ ~(\E q \in procs' : q.n = p.n)

\* The handler p is resumed in this step and suspends again at the await `pc`.
Reaches(p, pc) == p \in procs /\ p.pc # pc /\ (\E q \in procs' : q.n = p.n /\ q.pc = pc)

\* An event or call arrives in this step.
Arrives == Len(delivered') = Len(delivered) + 1

NoLoading(blocks) == \A i \in 1..Len(blocks) : blocks[i].status # "loading"

\* The texts of the blocks of one type, in the order of the list.
RECURSIVE TextOf(_, _)
TextOf(blocks, type) ==
  IF blocks = <<>> THEN <<>>
  ELSE (IF Head(blocks).type = type THEN Head(blocks).content ELSE <<>>)
       \o TextOf(Tail(blocks), type)

\* The texts of one kind that the token events for `id` brought, in arrival
\* order (only events that found a state entry are handled at all).
RECURSIVE DeliveredText(_, _, _)
DeliveredText(log, id, field) ==
  IF log = <<>> THEN <<>>
  ELSE (IF Head(log).kind = "RESPONSE" /\ Head(log).id = id /\ Head(log).found
        THEN (IF field = "content" THEN Head(log).content
              ELSE Head(log).reasoning_content)
        ELSE <<>>)
       \o DeliveredText(Tail(log), id, field)

\* C1: in every reachable state of an in-flight message at most one block is
\* loading, and a loading block is the last block of the list.
C1_OnlyLastBlockLoading ==
  \A id \in MsgIds :
    Has(generatingMessages, id) =>
    \A i \in 1..Len(assistantMessage[id].content) :
      assistantMessage[id].content[i].status = "loading"
        => i = Len(assistantMessage[id].content)

\* C2: events of one message id are handled one at a time in arrival order:
\* no end or error event is applied while an earlier token event of the same
\* id is still suspended, and once the token handlers of an id have returned
\* the text of its blocks is the delivered text in arrival order.
C2_HandledInArrivalOrder ==
  /\ \A p \in procs :
       p.kind = "RESPONSE" =>
         \A i \in (p.n + 1)..Len(delivered) :
           ~(delivered[i].id = p.id /\ delivered[i].found
             /\ delivered[i].kind \in {"END", "ERROR"})
  /\ \A id \in MsgIds :
       ((\E i \in 1..Len(delivered) : delivered[i].id = id /\ delivered[i].found)
        /\ ~(\E p \in procs : p.kind = "RESPONSE" /\ p.id = id))
       => /\ TextOf(assistantMessage[id].content, "content")
               = DeliveredText(delivered, id, "content")
          /\ TextOf(assistantMessage[id].content, "reasoning_content")
               = DeliveredText(delivered, id, "reasoning_content")

\* C4: when stop(id) returns, id has no state entry and no block of the
\* message is loading, in memory or in the persisted list, whatever events
\* arrived while stop was suspended.
C4_StopLeavesNoLoading ==
  [][\A p \in procs :
       (p.kind = "stop" /\ Completes(p)) =>
         /\ ~Has(generatingMessages', p.id)
         /\ NoLoading(assistantMessage'[p.id].content)
         /\ NoLoading(Parse(messages'[p.id].content))]_vars

\* The arrival that starts handler q in this step.
Starts(q) == Arrives /\ q \in procs' /\ q.n = Len(delivered')

HasTextBlock(blocks) == \E i \in 1..Len(blocks) : IsTextBlock(blocks[i])

NoResponseBlock == Block("error", <<"common.error.noModelResponse">>, "error")

\* C6: an end event on a message without a content or reasoning_content
\* block appends exactly one error block with the no-model-response marker;
\* on a message with such a block it appends nothing.
C6_EndSynthesizesOneErrorBlock ==
  [][\A q \in procs' :
       (q.kind = "END" /\ Starts(q)) =>
         LET before == assistantMessage[q.id].content
             after == assistantMessage'[q.id].content
         IN IF HasTextBlock(before)
            THEN Len(after) = Len(before)
            ELSE /\ Len(after) = Len(before) + 1
                 /\ after[Len(after)] = NoResponseBlock
                 /\ \A i \in 1..Len(before) : after[i].type = before[i].type]_vars

\* Both cases of C6 have happened: a message that ended with its only block
\* the synthesized one, after an end on a list without text.
C6_Witness ==
  /\ \E i \in 1..Len(delivered) : delivered[i].kind = "END" /\ delivered[i].found
  /\ Len(assistantMessage[1].content) >= 1
  /\ assistantMessage[1].content[Len(assistantMessage[1].content)] = NoResponseBlock
  /\ ~HasTextBlock(assistantMessage[1].content)

C8_TokensPerSecondGuarded ==
  \A id \in MsgIds :
    LET m == metadata[id]
    IN /\ m.tokensPerSecond.kind # "NaN"
       /\ m.tokensPerSecond.num >= 0 /\ m.tokensPerSecond.den > 0
       /\ m.generationTime = 0 => m.tokensPerSecond = Num(m.outputTokens)

\* C10: an event or a stop for an id without a state entry changes nothing:
\* not the table, not a state, not a message in memory or in the store, not
\* the metadata; it calls nothing on the provider and leaves no handler
\* suspended.
C10_UnknownIdIsNoOp ==
  [][(Arrives /\ ~delivered'[Len(delivered')].found) =>
       UNCHANGED <<generatingMessages, state, assistantMessage, conversations,
                   messages, metadata, attachments, providerCalls, thrown,
                   procs>>]_vars

\* A stop and a stream event have each arrived for an id without an entry.
C10_Witness ==
  /\ \E i \in 1..Len(delivered) : delivered[i].kind = "stop" /\ ~delivered[i].found
  /\ \E i \in 1..Len(delivered) :
       delivered[i].kind \in {"RESPONSE", "END", "ERROR"} /\ ~delivered[i].found

RECURSIVE CountInterrupted(_)
CountInterrupted(blocks) ==
  IF blocks = <<>> THEN 0
  ELSE (IF Head(blocks).type = "error" /\ Head(blocks).content = SessionInterrupted
        THEN 1 ELSE 0) + CountInterrupted(Tail(blocks))

C3_AssemblyFailureFinalizes ==
  \A i \in 1..Len(thrown) :
    thrown[i].caught =>
      LET id == delivered[thrown[i].n].id
          blocks == Parse(messages[id].content)
      IN /\ messages[id].status = "error"
         /\ blocks # <<>>
         /\ blocks[Len(blocks)] = Block("error", String(thrown[i].error), "error")
         /\ ~Has(generatingMessages, id)

\* ------------------------------------------------------------------ the history selection alone

MaxHistory == 3

\* A text of n tokens.
Text(n) == [i \in 1..n |-> "w"]

\* The messages a history is drawn from: user messages of 0, 3 and 400 tokens,
\* assistant messages of 2 and 400 tokens.
ContextMessage(id, role, size) ==
  [id |-> id, role |-> role, parentId |-> Null, conversationId |-> 1,
   content |-> IF role = "user" THEN UserContent(Text(size), FALSE)
               ELSE IF size = 2 THEN <<>>
               ELSE <<Block("content", Text(size - 4), "success")>>]

HistoryShapes ==
  {<<"user", 0>>, <<"user", 3>>, <<"user", 400>>,
   <<"assistant", 2>>, <<"assistant", 400>>}

HistoryOf(shape) ==
  [i \in 1..Len(shape) |-> ContextMessage(i, shape[i][1], shape[i][2])]

Histories == UNION {[1..n -> HistoryShapes] : n \in 0..MaxHistory}

\* The message being answered: the newest of the conversation.
CurrentMessage == ContextMessage(0, "user", 3)

\* Every variable but prompt, with nothing in it.
Idle ==
  /\ generatingMessages = <<>>
  /\ state = <<>>
  /\ assistantMessage = <<>>
  /\ conversations = <<>>
  /\ messages = <<>>
  /\ metadata = <<>>
  /\ attachments = <<>>
  /\ providerCalls = <<>>
  /\ thrown = <<>>
  /\ procs = {}
  /\ delivered = <<>>
  /\ startupMessages = <<>>
  /\ now = 0

IdleUnchanged ==
  UNCHANGED <<generatingMessages, state, assistantMessage, conversations, messages,
              metadata, attachments, providerCalls, thrown, procs, delivered,
              startupMessages, now>>

\* The arguments of lines 812-848: a context length the history overflows and
\* one it does not, prompts that leave room, none, or less than none.
InitSelect ==
  /\ Idle
  /\ \E shape \in Histories, contextLength \in {8, 1000},
        searchPrompt \in {<<>>, Text(996)},
        systemPrompt \in {<<>>, Text(4), Text(96)},
        enrichedUserMessage \in {Text(1), Text(4)} :
       prompt = [kind |-> "select",
                 contextMessages |-> HistoryOf(shape) \o <<CurrentMessage>>,
                 userMessage |-> CurrentMessage,
                 contextLength |-> contextLength,
                 searchPrompt |-> searchPrompt,
                 systemPrompt |-> systemPrompt,
                 enrichedUserMessage |-> enrichedUserMessage,
                 selected |-> <<>>,
                 done |-> FALSE]

\* Lines 812-848.
SelectHistory ==
  /\ prompt.kind = "select"
  /\ ~prompt.done
  /\ prompt' =
       [prompt EXCEPT
          !.selected =
            SelectContext(prompt.contextMessages, prompt.userMessage,
                          prompt.contextLength,
                          ReservedTokens(prompt.searchPrompt, prompt.systemPrompt,
                                         prompt.enrichedUserMessage)),
          !.done = TRUE]
  /\ IdleUnchanged

NextSelect == SelectHistory

SpecSelect == InitSelect /\ [][NextSelect]_vars

\* ------------------------------------------------------------------ claims on the history selection

\* The history without the message being answered, oldest first.
History == SelectSeq(prompt.contextMessages, LAMBDA msg : msg.id # prompt.userMessage.id)

Remaining ==
  prompt.contextLength
  - ReservedTokens(prompt.searchPrompt, prompt.systemPrompt, prompt.enrichedUserMessage)

RECURSIVE TotalTokens(_)
TotalTokens(msgs) ==
  IF msgs = <<>> THEN 0 ELSE MsgTokens(Head(msgs)) + TotalTokens(Tail(msgs))

Newest(k) == SubSeq(History, Len(History) - k + 1, Len(History))

\* C11: with room left (contextLength - reservedTokens > 0), the selected
\* history is the longest run of the newest messages whose sizes add up to at
\* most contextLength - reservedTokens: it is a suffix of the history in
\* chronological order, it fits, and the next older message, if any, would
\* not fit; no message is skipped to reach an older one.
C11_SelectsLongestNewestRun ==
  (prompt.kind = "select" /\ prompt.done /\ Remaining > 0) =>
    LET k == Len(prompt.selected)
    IN /\ k <= Len(History)
       /\ prompt.selected = Newest(k)
       /\ TotalTokens(prompt.selected) <= Remaining
       /\ k < Len(History) => TotalTokens(Newest(k + 1)) > Remaining

\* contextLength 1000, 100 tokens reserved, three messages of 400 tokens: the
\* last two are selected.
C11_Witness ==
  /\ prompt.kind = "select" /\ prompt.done
  /\ prompt.contextLength = 1000 /\ Remaining = 900
  /\ Len(History) = 3
  /\ \A i \in 1..3 : MsgTokens(History[i]) = 400
  /\ prompt.selected = <<History[2], History[3]>>

\* C12: when the search prompt, the system prompt and the user turn together
\* take contextLength tokens or more, no history is selected.
C12_NoRoomNoHistory ==
  (prompt.kind = "select" /\ prompt.done /\ Remaining <= 0) => prompt.selected = <<>>

\* Exactly no room, and the newest message of the history has no tokens.
C12_Witness ==
  /\ prompt.kind = "select" /\ prompt.done
  /\ Remaining = 0
  /\ Len(History) > 0 /\ MsgTokens(History[Len(History)]) = 0
  /\ prompt.selected = <<>>

\* ------------------------------------------------------------------ the merge pass alone

MaxEntries == 4

Roles == {"system", "user", "assistant"}

\* Every list of up to MaxEntries entries of two contents.
EntryLists ==
  UNION {[1..n -> [role : Roles, content : {<<"a">>, <<"b">>}]] : n \in 0..MaxEntries}

InitMerge ==
  /\ Idle
  /\ prompt \in [kind : {"merge"}, formattedMessages : EntryLists,
                  mergedMessages : {<<>>}, again : {<<>>}, passes : {0}]

\* Lines 902-913.
MergePass ==
  /\ prompt.kind = "merge"
  /\ prompt.passes = 0
  /\ prompt' = [prompt EXCEPT
                  !.mergedMessages = MergeMessages(prompt.formattedMessages, <<>>),
                  !.passes = 1]
  /\ IdleUnchanged

\* Lines 902-913 on the list they produced.
MergeAgain ==
  /\ prompt.kind = "merge"
  /\ prompt.passes = 1
  /\ prompt' = [prompt EXCEPT
                  !.again = MergeMessages(prompt.mergedMessages, <<>>),
                  !.passes = 2]
  /\ IdleUnchanged

NextMerge ==
  \/ MergePass
  \/ MergeAgain

SpecMerge == InitMerge /\ [][NextMerge]_vars

\* C13: the merge pass applied to its own output returns that output
\* unchanged, whatever list of role-tagged entries it started from.
C13_MergeIdempotent ==
  (prompt.kind = "merge" /\ prompt.passes = 2) => prompt.again = prompt.mergedMessages

\* A list the first pass shortened, to more than one entry.
C13_Witness ==
  /\ prompt.kind = "merge" /\ prompt.passes = 2
  /\ Len(prompt.mergedMessages) < Len(prompt.formattedMessages)
  /\ Len(prompt.mergedMessages) > 1
  /\ prompt.again = prompt.mergedMessages

\* ------------------------------------------------------------------ the list for the provider alone

\* The arguments of lines 850-915: each system prompt and artifacts flag, a
\* selected history, a turn with and without a search prompt.
InitFormat ==
  /\ Idle
  /\ \E shape \in Histories, systemPrompt \in {<<>>, <<"system">>},
        artifacts \in {0, 1}, searchPrompt \in {<<>>, <<"search">>} :
       prompt = [kind |-> "format",
                 settings |-> [systemPrompt |-> systemPrompt, artifacts |-> artifacts],
                 contextMessages |-> HistoryOf(shape),
                 searchPrompt |-> searchPrompt,
                 enrichedUserMessage |-> <<"turn">>,
                 formattedMessages |-> <<>>,
                 done |-> FALSE]

\* Lines 850-915.
FormatMessages ==
  /\ prompt.kind = "format"
  /\ ~prompt.done
  /\ prompt' =
       [prompt EXCEPT
          !.formattedMessages =
            FormattedMessages(prompt.settings, <<"artifacts">>, prompt.contextMessages,
                              prompt.searchPrompt, prompt.enrichedUserMessage),
          !.done = TRUE]
  /\ IdleUnchanged

NextFormat == FormatMessages

SpecFormat == InitFormat /\ [][NextFormat]_vars

\* The entries pushed on lines 850-900 for the arguments at hand.
Pushed ==
  UnmergedMessages(prompt.settings, <<"artifacts">>, prompt.contextMessages,
                   prompt.searchPrompt, prompt.enrichedUserMessage)

\* The places of a list where a run of one role starts, and the j-th run.
RunStarts(list) == {i \in 1..Len(list) : i = 1 \/ list[i].role # list[i - 1].role}

RunStart(list, j) ==
  CHOOSE i \in RunStarts(list) : Cardinality({k \in RunStarts(list) : k <= i}) = j

RunEnd(list, j) ==
  IF j = Cardinality(RunStarts(list)) THEN Len(list) ELSE RunStart(list, j + 1) - 1

RunContents(list, j) ==
  [i \in 1..(RunEnd(list, j) - RunStart(list, j) + 1) |->
     list[RunStart(list, j) + i - 1].content]

\* C14: the list for the provider has no two adjacent entries of one role,
\* and it holds one entry for each run of same-role entries pushed, of that
\* role, whose content is the contents of the run joined by newlines in order.
C14_ProviderListAlternates ==
  (prompt.kind = "format" /\ prompt.done) =>
    LET list == prompt.formattedMessages
    IN /\ \A i \in 1..(Len(list) - 1) : list[i].role # list[i + 1].role
       /\ Len(list) = Cardinality(RunStarts(Pushed))
       /\ \A j \in 1..Len(list) :
            /\ list[j].role = Pushed[RunStart(Pushed, j)].role
            /\ list[j].content = Join(RunContents(Pushed, j), <<"\n">>)

\* A system entry, then a run of at least three user entries merged into one.
C14_Witness ==
  /\ prompt.kind = "format" /\ prompt.done
  /\ Len(prompt.formattedMessages) = 2
  /\ prompt.formattedMessages[1].role = "system"
  /\ Len(Pushed) >= 4

\* ------------------------------------------------------------------ claims on the search augmenter

\* The call p is resumed in this step.
Resumed(p) == p \in procs /\ p \notin procs'

\* The call p as it is after this step.
After(p) == CHOOSE q \in procs' : q.n = p.n

IsSearchError(block) ==
  /\ block.type = "search" /\ block.status = "error"
  /\ \E error \in ErrorValues : block.content = String(error)

\* C15: when the search backend throws, the search block gets status error
\* and the stringified error as content and is persisted; the augmenter then
\* returns an empty result set, nothing is raised, and the call goes on to
\* assemble the prompt and, once the metadata is written, calls the
\* provider's startStreamCompletion.
C15_SearchFailureProceeds ==
  [][\A p \in procs :
       (p.kind = "ssc" /\ Resumed(p)) =>
         /\ (p.pc = "search_results" /\ Reaches(p, "search_error")) =>
              /\ IsSearchError(assistantMessage'[p.id].content[1])
              /\ messages'[p.id].content = Stringify(assistantMessage'[p.id].content)
              /\ thrown' = thrown
         /\ p.pc = "search_error" =>
              /\ thrown' = thrown
              /\ After(p).searchResults.list = <<>>
              /\ After(p).pc \in {"ssc_artifacts", "ssc_metadata", "ssc_metadata_rejected"}
         /\ (/\ p.pc = "ssc_metadata"
             /\ assistantMessage[p.id].content # <<>>
             /\ IsSearchError(assistantMessage[p.id].content[1])) =>
              /\ After(p).pc = "ssc_provider"
              /\ providerCalls' =
                   Append(providerCalls,
                          [call |-> "startStreamCompletion", eventId |-> p.id,
                           messages |-> p.formattedMessages])]_vars

\* The provider was called for a message whose search block is in error.
C15_Witness ==
  \E i \in 1..Len(providerCalls) :
    /\ providerCalls[i].call = "startStreamCompletion"
    /\ assistantMessage[providerCalls[i].eventId].content # <<>>
    /\ IsSearchError(assistantMessage[providerCalls[i].eventId].content[1])

IsSuffix(text, of) ==
  /\ Len(text) <= Len(of)
  /\ SubSeq(of, Len(of) - Len(text) + 1, Len(of)) = text

\* C16: the list sent to the provider ends with a user entry whose content
\* is, after whatever the merge pass put before it, the search prompt when
\* the search returned results and the enriched user text otherwise (no
\* search requested, search failed, or no result).
C16_LastEntryIsUserTurn ==
  \A p \in procs :
    (p.kind = "ssc" /\ p.pc = "ssc_provider") =>
      LET list == providerCalls[Len(providerCalls)].messages
          userContent == UserTurn(p.userMessage[1].content)
      IN /\ list # <<>>
         /\ list[Len(list)].role = "user"
         /\ IsSuffix(IF p.searchResults.list # <<>>
                     THEN generateSearchPrompt(userContent, p.searchResults.list)
                     ELSE EnrichedUserMessage(userContent, p.urlResults),
                     list[Len(list)].content)

\* C20: when the rewrite of the query fails, or returns nothing but blanks,
\* nothing is raised and the search backend is called with the original
\* query.
C20_RewriteFailureFallsBack ==
  [][\A p \in procs :
       (p.kind = "ssc" /\ Resumed(p)
        /\ p.pc \in {"rewrite_conversation", "rewrite_completion"}) =>
         /\ thrown' = thrown
         /\ \/ p.pc = "rewrite_conversation" /\ After(p).pc = "rewrite_completion"
            \/ /\ After(p).pc = "search_results"
               /\ (After(p).rewrittenQuery = <<>>
                   \/ trim(After(p).rewrittenQuery[1]) = <<>>) =>
                    After(p).query = UserTurn(p.userMessage[1].content)]_vars

\* ------------------------------------------------------------------ sendMessage, retryMessage, stopConversationGeneration

MaxCalls == 2

\* Lines 966 and 971, and the TypeError of line 965 on a message that is not
\* there.
OnlyAssistantRetry == "only assistant messages can be retried"
RetryUserMessageNotFound == "matching user message not found"
TypeError == "TypeError"

\* A function with one more, or one replaced, value.
Put(f, k, v) == [x \in DOMAIN f \cup {k} |-> IF x = k THEN v ELSE f[x]]

\* messageManager.sendMessage and retryMessage give the new row the next id.
NextId(rows) == Cardinality(DOMAIN rows) + 1

\* messageManager.retryMessage: a new, empty assistant message beside the
\* one retried, under the same user message.
retryMessage(rows, messageId) ==
  Put(rows, NextId(rows),
      Row("assistant", "pending", Stringify(<<>>), rows[messageId].conversationId,
          rows[messageId].parentId))

\* A call suspended at the await named pc: the id it was called with, its
\* arguments and locals (created is the id of assistantMessage), and what it
\* returned once pc is "returned".
CallProc(n, kind, id, pc) ==
  [n |-> n, kind |-> kind, id |-> id, pc |-> pc, conversationId |-> Null,
   role |-> "", awaited |-> <<>>, message |-> <<>>, created |-> Null,
   messageIds |-> <<>>, result |-> Null]

Call(kind, id) ==
  [kind |-> kind, id |-> id, found |-> TRUE, content |-> <<>>,
   reasoning_content |-> <<>>]

\* Line 965.
RetryTarget_Any(awaited) == awaited # <<>>

RetryTarget(awaited) == awaited # <<>> /\ awaited[1].role = "assistant"

\* Lines 1068-1070: the keys of the entries of one conversation, in the order
\* of the Map.
ConversationEntries(map, states, conversationId) ==
  SelectSeq(map, LAMBDA id : states[id].conversationId = conversationId)

\* Line 1071: every stopMessageGeneration runs up to its first await, in the
\* order of messageIds.
RECURSIVE StopAll(_, _)
StopAll(s, messageIds) ==
  IF messageIds = <<>> THEN s
  ELSE StopAll(StopMessageGeneration(s, Head(messageIds)).s, Tail(messageIds))

\* The arrival numbers of the stops one call of stopConversationGeneration
\* starts.
ChildNumber(n, i) == 10 * n + i

\* Lines 443-448: sendMessage is called, for the first conversation.
SendMessage(roles) ==
  \E conversationId \in {1}, role \in roles :
    /\ Len(delivered) < MaxCalls
    /\ delivered' = Append(delivered, Call("sendMessage", Null))
    /\ procs' = procs \cup
         {[CallProc(Len(delivered) + 1, "sendMessage", Null, "send_conversation")
             EXCEPT !.conversationId = conversationId, !.role = role]}
    /\ UNCHANGED <<generatingMessages, state, assistantMessage, conversations,
                   messages, metadata, attachments, providerCalls, thrown,
                   startupMessages, prompt, now>>

CallSendMessage == SendMessage({"user", "assistant"})

\* sendMessage is called with a user message, as the chat view calls it.
CallSendUserMessage == SendMessage({"user"})

\* Line 448 returns; line 451 creates the message.
SendAfterConversation ==
  \E p \in procs :
    /\ p.kind = "sendMessage" /\ p.pc = "send_conversation"
    /\ messages' =
         Put(messages, NextId(messages),
             Row(p.role, "pending", Stringify(UserContent(<<"question">>, FALSE)),
                 p.conversationId, 0))
    /\ metadata' = Put(metadata, NextId(messages), NewMetadata(0))
    /\ procs' = (procs \ {p}) \cup
         {[p EXCEPT !.pc = "send_message", !.message = <<NextId(messages)>>]}
    /\ UNCHANGED <<generatingMessages, state, assistantMessage, conversations,
                   attachments, providerCalls, thrown, delivered, startupMessages,
                   prompt, now>>

\* Line 451 returns; lines 468-469 and 496, or line 491.
SendAfterMessage ==
  \E p \in procs :
    /\ p.kind = "sendMessage" /\ p.pc = "send_message"
    /\ procs' = (procs \ {p}) \cup
         {IF p.role = "user"
          THEN [p EXCEPT !.pc = "gen_message",
                         !.awaited = getMessage(messages, p.message[1])]
          ELSE [p EXCEPT !.pc = "returned", !.result = Null]}
    /\ UNCHANGED <<generatingMessages, state, assistantMessage, conversations,
                   messages, metadata, attachments, providerCalls, thrown, delivered,
                   startupMessages, prompt, now>>

\* Line 496 returns the row line 451 created (lines 497-499 and the catch of
\* 535-539 are for a row that is not there); line 501.
GenAfterMessage ==
  \E p \in procs :
    /\ p.kind = "sendMessage" /\ p.pc = "gen_message"
    /\ p.awaited # <<>>
    /\ messages' = updateMessageStatus(messages, p.message[1], "sent")
    /\ procs' = (procs \ {p}) \cup {[p EXCEPT !.pc = "gen_status", !.awaited = <<>>]}
    /\ UNCHANGED <<generatingMessages, state, assistantMessage, conversations,
                   metadata, attachments, providerCalls, thrown, delivered,
                   startupMessages, prompt, now>>

\* Line 501 returns; line 503.
GenAfterStatus ==
  \E p \in procs :
    /\ p.kind = "sendMessage" /\ p.pc = "gen_status"
    /\ procs' = (procs \ {p}) \cup {[p EXCEPT !.pc = "gen_conversation"]}
    /\ UNCHANGED <<generatingMessages, state, assistantMessage, conversations,
                   messages, metadata, attachments, providerCalls, thrown, delivered,
                   startupMessages, prompt, now>>

\* Line 503 returns; line 505 creates the assistant message.
GenAfterConversation ==
  \E p \in procs :
    /\ p.kind = "sendMessage" /\ p.pc = "gen_conversation"
    /\ messages' =
         Put(messages, NextId(messages),
             Row("assistant", "pending", Stringify(<<>>), p.conversationId,
                 p.message[1]))
    /\ metadata' = Put(metadata, NextId(messages), NewMetadata(0))
    /\ procs' = (procs \ {p}) \cup
         {[p EXCEPT !.pc = "gen_assistant", !.created = NextId(messages)]}
    /\ UNCHANGED <<generatingMessages, state, assistantMessage, conversations,
                   attachments, providerCalls, thrown, delivered, startupMessages,
                   prompt, now>>

\* Line 505 returns; lines 523-534 and, generateAIResponse having returned to
\* line 469 with nothing outside the presenter awaited in between, lines
\* 470-482: the entry is set twice under the same key.
GenAfterAssistant ==
  \E p \in procs :
    /\ p.kind = "sendMessage" /\ p.pc = "gen_assistant"
    /\ generatingMessages' = MapSet(MapSet(generatingMessages, p.created), p.created)
    /\ state' =
         Put(Put(state, p.created, NewState(p.conversationId, now, 0)),
             p.created, NewState(p.conversationId, now, 0))
    /\ assistantMessage' = Put(assistantMessage, p.created, [content |-> <<>>])
    /\ procs' = (procs \ {p}) \cup {[p EXCEPT !.pc = "send_messages"]}
    /\ UNCHANGED <<conversations, messages, metadata, attachments, providerCalls,
                   thrown, delivered, startupMessages, prompt, now>>

\* Line 482 returns the two messages the call created at least (line 483 is
\* false); line 488.
SendAfterMessages ==
  \E p \in procs :
    /\ p.kind = "sendMessage" /\ p.pc = "send_messages"
    /\ procs' = (procs \ {p}) \cup {[p EXCEPT !.pc = "returned", !.result = p.created]}
    /\ UNCHANGED <<generatingMessages, state, assistantMessage, conversations,
                   messages, metadata, attachments, providerCalls, thrown, delivered,
                   startupMessages, prompt, now>>

\* The ids retryMessage is called with: the id of no message, of a user
\* message, of an assistant message in flight under it, and of an assistant
\* message whose user message is not there.
RetryTargets == {0, 1, 2, 4}

\* Lines 963-964: retryMessage is called.
CallRetryMessage ==
  \E messageId \in RetryTargets :
    /\ Len(delivered) < MaxCalls
    /\ delivered' = Append(delivered, Call("retryMessage", messageId))
    /\ procs' = procs \cup
         {[CallProc(Len(delivered) + 1, "retryMessage", messageId, "retry_message")
             EXCEPT !.awaited = getMessage(messages, messageId)]}
    /\ UNCHANGED <<generatingMessages, state, assistantMessage, conversations,
                   messages, metadata, attachments, providerCalls, thrown,
                   startupMessages, prompt, now>>

\* Line 964 returns; lines 965-969.
RetryAfterMessage ==
  \E p \in procs :
    /\ p.kind = "retryMessage" /\ p.pc = "retry_message"
    /\ IF RetryTarget(p.awaited)
       THEN /\ procs' = (procs \ {p}) \cup
                 {[p EXCEPT !.pc = "retry_userMessage", !.message = p.awaited,
                            !.awaited = getMessage(messages, p.awaited[1].parentId)]}
            /\ UNCHANGED thrown
       ELSE /\ procs' = (procs \ {p}) \cup {[p EXCEPT !.pc = "thrown"]}
            /\ thrown' =
                 Append(thrown,
                        [n |-> p.n, caught |-> FALSE,
                         error |-> IF p.awaited = <<>> THEN TypeError
                                   ELSE OnlyAssistantRetry])
    /\ UNCHANGED <<generatingMessages, state, assistantMessage, conversations,
                   messages, metadata, attachments, providerCalls, delivered,
                   startupMessages, prompt, now>>

\* Line 969 returns; lines 970-973.
RetryAfterUserMessage ==
  \E p \in procs :
    /\ p.kind = "retryMessage" /\ p.pc = "retry_userMessage"
    /\ IF p.awaited # <<>>
       THEN /\ procs' = (procs \ {p}) \cup
                 {[p EXCEPT !.pc = "retry_conversation", !.awaited = <<>>]}
            /\ UNCHANGED thrown
       ELSE /\ procs' = (procs \ {p}) \cup {[p EXCEPT !.pc = "thrown"]}
            /\ thrown' =
                 Append(thrown, [n |-> p.n, caught |-> FALSE,
                                 error |-> RetryUserMessageNotFound])
    /\ UNCHANGED <<generatingMessages, state, assistantMessage, conversations,
                   messages, metadata, attachments, providerCalls, delivered,
                   startupMessages, prompt, now>>

\* Line 973 returns; line 975 creates the new assistant message.
RetryAfterConversation ==
  \E p \in procs :
    /\ p.kind = "retryMessage" /\ p.pc = "retry_conversation"
    /\ messages' = retryMessage(messages, p.id)
    /\ metadata' = Put(metadata, NextId(messages), NewMetadata(0))
    /\ procs' = (procs \ {p}) \cup
         {[p EXCEPT !.pc = "retry_assistant", !.created = NextId(messages)]}
    /\ UNCHANGED <<generatingMessages, state, assistantMessage, conversations,
                   attachments, providerCalls, thrown, delivered, startupMessages,
                   prompt, now>>

\* Line 975 returns; lines 987-998.
RetryAfterAssistant ==
  \E p \in procs :
    /\ p.kind = "retryMessage" /\ p.pc = "retry_assistant"
    /\ generatingMessages' = MapSet(generatingMessages, p.created)
    /\ state' = Put(state, p.created, NewState(p.message[1].conversationId, now, 0))
    /\ assistantMessage' = Put(assistantMessage, p.created, [content |-> <<>>])
    /\ procs' = (procs \ {p}) \cup {[p EXCEPT !.pc = "returned", !.result = p.created]}
    /\ UNCHANGED <<conversations, messages, metadata, attachments, providerCalls,
                   thrown, delivered, startupMessages, prompt, now>>

\* Lines 1067-1071: stopConversationGeneration is called; each stop it starts
\* is suspended at line 1056.
CallStopConversation ==
  \E conversationId \in DOMAIN conversations :
    LET messageIds == ConversationEntries(generatingMessages, state, conversationId)
        n == Len(delivered) + 1
    IN /\ Len(delivered) < MaxCalls
       /\ delivered' = Append(delivered, Call("stopConversationGeneration", Null))
       /\ Commit(StopAll(Cur, messageIds))
       /\ procs' = procs
            \cup {[CallProc(n, "stopConversationGeneration", Null, "stop_all")
                     EXCEPT !.conversationId = conversationId,
                            !.messageIds = messageIds]}
            \cup {Proc(ChildNumber(n, i), "stop", messageIds[i], <<>>, <<>>, <<>>,
                       Result(Cur, "stop_status")) : i \in 1..Len(messageIds)}
       /\ UNCHANGED now

\* Line 1071: Promise.all resolves when every stop has returned; line 1072.
StopAllReturns ==
  \E p \in procs :
    /\ p.kind = "stopConversationGeneration" /\ p.pc = "stop_all"
    /\ \A i \in 1..Len(p.messageIds) : \A q \in procs : q.n # ChildNumber(p.n, i)
    /\ procs' = (procs \ {p}) \cup {[p EXCEPT !.pc = "returned"]}
    /\ UNCHANGED <<generatingMessages, state, assistantMessage, conversations,
                   messages, metadata, attachments, providerCalls, thrown, delivered,
                   startupMessages, prompt, now>>

\* Two conversations: in the first a user message and two answers to it in
\* flight, in the second an answer in flight whose user message is gone.
InitCalls ==
  /\ now = 1
  /\ conversations = [c \in {1, 2} |-> [settings |-> DEFAULT_SETTINGS]]
  /\ messages =
       <<Row("user", "sent", Stringify(UserContent(<<"question">>, FALSE)), 1, 0),
         Row("assistant", "pending",
             Stringify(<<Block("content", <<"0">>, "loading")>>), 1, 1),
         Row("assistant", "pending", Stringify(<<>>), 1, 1),
         Row("assistant", "pending",
             Stringify(<<Block("content", <<"0">>, "loading")>>), 2, 0)>>
  /\ metadata = [id \in 1..4 |-> NewMetadata(0)]
  /\ generatingMessages = <<2, 3, 4>>
  /\ state = [id \in 2..4 |-> NewState(IF id = 4 THEN 2 ELSE 1, 1, 0)]
  /\ assistantMessage =
       [id \in 2..4 |->
          [content |-> IF id = 3 THEN <<>>
                       ELSE <<Block("content", <<"0">>, "loading")>>]]
  /\ attachments = <<>>
  /\ providerCalls = <<>>
  /\ thrown = <<>>
  /\ procs = {}
  /\ delivered = <<>>
  /\ startupMessages = <<>>
  /\ prompt = [kind |-> "none"]

NextCalls ==
  \/ CallSendMessage
  \/ SendAfterConversation
  \/ SendAfterMessage
  \/ GenAfterMessage
  \/ GenAfterStatus
  \/ GenAfterConversation
  \/ GenAfterAssistant
  \/ SendAfterMessages
  \/ CallRetryMessage
  \/ RetryAfterMessage
  \/ RetryAfterUserMessage
  \/ RetryAfterConversation
  \/ RetryAfterAssistant
  \/ CallStopConversation
  \/ StopAllReturns
  \/ StopAfterStatus
  \/ StopAfterEdit
  \/ StopAfterStream

SpecCalls == InitCalls /\ [][NextCalls]_vars

\* The recovery pass of the constructor with calls of sendMessage made while
\* it runs.
NextRecoverSend ==
  \/ NextRecover
  \/ CallSendUserMessage
  \/ SendAfterConversation
  \/ SendAfterMessage
  \/ GenAfterMessage
  \/ GenAfterStatus
  \/ GenAfterConversation
  \/ GenAfterAssistant
  \/ SendAfterMessages

\* The rows of a previous process: a user message of conversation 1 that
\* was sent, and an assistant message in any of its states.
InitRecoverSend ==
  /\ InitRecover
  /\ messages[1] = Row("user", "sent", Stringify(<<>>), 1, 0)
  /\ messages[2].role = "assistant"

SpecRecoverSend == InitRecoverSend /\ [][NextRecoverSend]_vars

\* The calls, and token events for the messages in flight.
NextCallsStreaming ==
  \/ NextCalls
  \/ EmitResponse
  \/ ResponseAfterFirst
  \/ ResponseAfterReasoning

SpecCallsStreaming == InitCalls /\ [][NextCallsStreaming]_vars

\* A conversation used twice: startStreamCompletion for the message of an
\* earlier send, then, when that call is over, sendMessage and
\* startStreamCompletion for the same conversation again.
CallSendAfterAssembly ==
  /\ delivered # <<>>
  /\ ~(\E q \in procs : q.kind = "ssc")
  /\ CallSendUserMessage

CallStartStreamCompletionAgain ==
  \E q \in procs :
    /\ q.kind = "sendMessage" /\ q.pc = "returned"
    /\ Len(delivered) = MaxCalls
    /\ LET started == StartStreamCompletion(Cur, Len(delivered) + 1, q.conversationId, Null)
       IN /\ delivered' =
               Append(delivered,
                      [kind |-> "ssc", id |-> IF started = <<>> THEN 0 ELSE started[1].id,
                       found |-> started # <<>>, content |-> <<>>,
                       reasoning_content |-> <<>>])
          /\ procs' = procs \cup {started[i] : i \in 1..Len(started)}
    /\ UNCHANGED <<generatingMessages, state, assistantMessage, conversations,
                   messages, metadata, attachments, providerCalls, thrown,
                   startupMessages, prompt, now>>

NextSendAssembly ==
  \/ NextAssembly
  \/ CallSendAfterAssembly
  \/ SendAfterConversation
  \/ SendAfterMessage
  \/ GenAfterMessage
  \/ GenAfterStatus
  \/ GenAfterConversation
  \/ GenAfterAssistant
  \/ SendAfterMessages
  \/ CallStartStreamCompletionAgain

SpecSendAssembly == InitAssembly /\ [][NextSendAssembly]_vars

\* ------------------------------------------------------------------ claims on the calls

NewRows == DOMAIN messages' \ DOMAIN messages

Streamed(id) ==
  \E i \in 1..Len(providerCalls) :
    providerCalls[i].call = "startStreamCompletion" /\ providerCalls[i].eventId = id

\* C17: sendMessage creates the message it is given and, for role user, one
\* more: an assistant message with an empty block list under the new user
\* message; it then sets one state entry, keyed by the id of that assistant
\* message, with firstTokenTime null and promptTokens 0 (lines 523 and 470
\* set the same key), and returns the assistant message, the provider never
\* having been called. For another role it creates no other message, sets no
\* state entry and returns null.
C17_SendCreatesOnePlaceholder ==
  [][\A p \in procs :
       (p.kind = "sendMessage" /\ Resumed(p)) =>
         /\ providerCalls' = providerCalls
         /\ p.pc = "send_conversation" =>
              /\ Cardinality(NewRows) = 1
              /\ \A id \in NewRows : messages'[id].role = p.role
         /\ p.pc = "gen_conversation" =>
              /\ p.role = "user"
              /\ NewRows = {After(p).created}
              /\ messages'[After(p).created] =
                   Row("assistant", "pending", Stringify(<<>>), p.conversationId,
                       p.message[1])
              /\ messages[p.message[1]].role = "user"
         /\ p.pc \notin {"send_conversation", "gen_conversation"} => NewRows = {}
         /\ p.pc # "gen_assistant" => generatingMessages' = generatingMessages
         /\ p.pc = "gen_assistant" =>
              /\ ~Has(generatingMessages, p.created)
              /\ generatingMessages' = Append(generatingMessages, p.created)
              /\ state'[p.created].firstTokenTime = Null
              /\ state'[p.created].promptTokens = 0
              /\ state'[p.created].conversationId = p.conversationId
              /\ assistantMessage'[p.created].content = <<>>
         /\ After(p).pc = "returned" =>
              IF p.role = "user"
              THEN /\ p.pc = "send_messages"
                   /\ After(p).result = p.created
                   /\ p.created \in DOMAIN state
                   /\ ~Streamed(p.created)
              ELSE /\ p.pc = "send_message"
                   /\ After(p).result = Null
                   /\ p.created = Null]_vars

\* One send of a user message and one of another role have returned.
C17_Witness ==
  /\ \E p \in procs :
       /\ p.kind = "sendMessage" /\ p.pc = "returned" /\ p.role = "user"
       /\ p.result = p.created /\ Has(generatingMessages, p.created)
  /\ \E p \in procs :
       /\ p.kind = "sendMessage" /\ p.pc = "returned" /\ p.role # "user"
       /\ p.result = Null

\* The message with this id, in the store and in memory, and its state
\* entry, are left as they are.
Untouched(id) ==
  /\ id \in DOMAIN messages => messages'[id] = messages[id]
  /\ id \in DOMAIN assistantMessage => assistantMessage'[id] = assistantMessage[id]
  /\ id \in DOMAIN state => state'[id] = state[id]
  /\ Has(generatingMessages', id) <=> Has(generatingMessages, id)

\* C18: retryMessage raises an error, and sets no state entry, when the
\* target is not an assistant message or its parent user message is not
\* there; for an assistant message under a user message it creates one new
\* assistant message and sets one state entry, keyed by the new id, with
\* firstTokenTime null and promptTokens 0; it never changes the target
\* message nor its state entry.
C18_RetryAddsFreshAttempt ==
  [][\A p \in procs :
       (p.kind = "retryMessage" /\ Resumed(p)) =>
         /\ Untouched(p.id)
         /\ (p.pc = "retry_message"
             /\ (p.id \notin DOMAIN messages \/ messages[p.id].role # "assistant")) =>
              /\ After(p).pc = "thrown"
              /\ Len(thrown') = Len(thrown) + 1
              /\ thrown'[Len(thrown')].n = p.n
         /\ (p.pc = "retry_userMessage"
             /\ p.message[1].parentId \notin DOMAIN messages) =>
              /\ After(p).pc = "thrown"
              /\ Len(thrown') = Len(thrown) + 1
              /\ thrown'[Len(thrown')].n = p.n
         /\ After(p).pc # "thrown" => thrown' = thrown
         /\ p.pc = "retry_conversation" =>
              /\ NewRows = {After(p).created}
              /\ messages'[After(p).created].role = "assistant"
              /\ messages'[After(p).created].content = Stringify(<<>>)
         /\ p.pc # "retry_conversation" => NewRows = {}
         /\ p.pc = "retry_assistant" =>
              /\ p.created # p.id
              /\ ~Has(generatingMessages, p.created)
              /\ generatingMessages' = Append(generatingMessages, p.created)
              /\ state'[p.created] =
                   [conversationId |-> messages[p.id].conversationId,
                    startTime |-> now, firstTokenTime |-> Null, promptTokens |-> 0,
                    reasoningStartTime |-> Null, reasoningEndTime |-> Null,
                    lastReasoningTime |-> Null]
              /\ After(p).pc = "returned" /\ After(p).result = p.created
         /\ p.pc # "retry_assistant" => generatingMessages' = generatingMessages]_vars

\* A retry of an assistant message that is still in flight has returned, and
\* a retry of another message has raised.
C18_Witness ==
  /\ \E p \in procs :
       /\ p.kind = "retryMessage" /\ p.pc = "returned"
       /\ Has(generatingMessages, p.id) /\ Has(generatingMessages, p.created)
  /\ \E p \in procs : p.kind = "retryMessage" /\ p.pc = "thrown"

HasCancel(blocks) ==
  \E i \in 1..Len(blocks) :
    blocks[i] = Block("error", <<"common.error.userCanceledGeneration">>, "cancel")

Elements(list) == {list[i] : i \in 1..Len(list)}

\* The messages of the conversations other than c are left as they are.
OthersUntouched(c) ==
  \A id \in DOMAIN messages : messages[id].conversationId # c => Untouched(id)

\* C19: stopConversationGeneration(c) stops the state entries whose
\* conversationId is c when it is called, and those only; it returns when all
\* these stops have returned: none of their ids is in the table then, and
\* each of their messages has the cancel block, in memory and in the store.
\* Neither the call nor the stops it started change a message or a state
\* entry of another conversation.
C19_StopConversationStopsAll ==
  [][/\ \A q \in procs' :
          (q.kind = "stopConversationGeneration" /\ Starts(q)) =>
            /\ Elements(q.messageIds) =
                 {id \in Elements(generatingMessages) :
                    state[id].conversationId = q.conversationId}
            /\ \A i \in 1..Len(q.messageIds) :
                 \E child \in procs' :
                   /\ child.n = ChildNumber(q.n, i)
                   /\ child.kind = "stop" /\ child.id = q.messageIds[i]
            /\ OthersUntouched(q.conversationId)
     /\ \A p \in procs :
          /\ (p.kind = "stopConversationGeneration" /\ Resumed(p)) =>
               /\ After(p).pc = "returned"
               /\ \A q \in procs : q.kind = "stop" =>
                    \A i \in 1..Len(p.messageIds) : q.n # ChildNumber(p.n, i)
               /\ \A id \in Elements(p.messageIds) :
                    /\ ~Has(generatingMessages', id)
                    /\ HasCancel(assistantMessage'[id].content)
                    /\ HasCancel(Parse(messages'[id].content))
               /\ OthersUntouched(p.conversationId)
          /\ (p.kind = "stop" /\ Resumed(p)) =>
               OthersUntouched(messages[p.id].conversationId)]_vars

\* ------------------------------------------------------------------ claims on the token events


\* The handler of the token event that arrived as number k runs lines 128-158
\* in this step: it found a state entry and returns in this step, either at
\* its arrival or when it is resumed from its last await.
TokenApplied(k) ==
  /\ k \in 1..Len(delivered')
  /\ delivered'[k].kind = "RESPONSE"
  /\ delivered'[k].found
  /\ ~(\E q \in procs' : q.n = k)
  /\ (k > Len(delivered) \/ (\E p \in procs : p.n = k))

\* The text of one kind that the token event number k carries.
TokenText(k, type) ==
  IF type = "content" THEN delivered'[k].content ELSE delivered'[k].reasoning_content

\* C21: a block never changes its type; the text of a content block grows
\* only by the content text of a token event of its message and the text of
\* a reasoning_content block only by the reasoning_content text of one; a
\* block of another type never has its text changed by any event.
C21_TextKeepsItsType ==
  [][\A id \in MsgIds :
       LET old == assistantMessage[id].content
           new == assistantMessage'[id].content
       IN /\ Len(new) >= Len(old)
          /\ \A i \in 1..Len(old) : new[i].type = old[i].type
          /\ \A i \in 1..Len(new) :
               LET before == IF i <= Len(old) THEN old[i].content ELSE <<>>
               IN IF new[i].type \in Kinds
                  THEN new[i].content # before =>
                         \E k \in 1..Len(delivered') :
                           /\ TokenApplied(k)
                           /\ delivered'[k].id = id
                           /\ new[i].content = before \o TokenText(k, new[i].type)
                  ELSE i <= Len(old) => new[i].content = before]_vars

\* Message 1 holds delivered text of both kinds, each in a block of its type.
C21_Witness ==
  /\ Len(delivered) = MaxEvents
  /\ TextOf(assistantMessage[1].content, "content") # <<>>
  /\ TextOf(assistantMessage[1].content, "reasoning_content") # <<>>

\* The block list the specification prescribes for a token event carrying
\* text of one kind.
AppendOrPush(blocks, type, text) ==
  LET n == Len(blocks)
  IN IF n > 0 /\ blocks[n].type = type /\ blocks[n].status = "loading"
     THEN [blocks EXCEPT ![n].content = @ \o text]
     ELSE (IF n > 0 THEN [blocks EXCEPT ![n].status = "success"] ELSE blocks)
            \o <<Block(type, text, "loading")>>

\* C22: a token event carrying text of one kind appends it to the trailing
\* block only when that block has the same type and status loading, and
\* otherwise sets the trailing block to success and pushes a new loading
\* block of that type, so the delivered text is in the last block.
C22_AppendsOnlyToLoadingBlock ==
  [][\A k \in 1..Len(delivered') :
       TokenApplied(k) =>
         LET id == delivered'[k].id
             old == assistantMessage[id].content
             new == assistantMessage'[id].content
         IN \A type \in Kinds :
              (TokenText(k, type) # <<>> /\ TokenText(k, CHOOSE t \in Kinds : t # type) = <<>>)
                => new = AppendOrPush(old, type, TokenText(k, type))]_vars

\* ------------------------------------------------------------------ claims on a successful search

\* The call p is resumed in this step and is at the await `pc` after it.
Goes(p, pc) == Resumed(p) /\ (\E q \in procs' : q.n = p.n /\ q.pc = pc)

\* The attachment rows of one message, in the order they were stored.
AttachmentsOf(rows, id) == SelectSeq(rows, LAMBDA row : row.messageId = id)

Persisted(id) == Parse(messages'[id].content) = assistantMessage'[id].content

\* The status changes a search block may make.
SearchSteps ==
  {<<"loading", "reading">>, <<"reading", "success">>,
   <<"loading", "error">>, <<"reading", "error">>}

\* C23: the search block is put at the head of the list as loading, goes to
\* reading with extra.total the number of results, then to success, with no
\* step skipped or reversed; the list is stored with each of the three
\* changes; one attachment row per result is stored, in the order of the
\* results, between the store of reading and the store of success.
C23_SearchBlockProgress ==
  [][/\ \A id \in 1..AssistantMessageId :
          LET old == assistantMessage[id].content
              new == assistantMessage'[id].content
          IN (old # <<>> /\ old[1].type = "search") =>
               /\ new # <<>> /\ new[1].type = "search"
               /\ new[1].status # old[1].status =>
                    <<old[1].status, new[1].status>> \in SearchSteps
     /\ \A p \in procs :
          p.kind = "ssc" =>
            LET old == assistantMessage[p.id].content
                new == assistantMessage'[p.id].content
            IN /\ Goes(p, "search_loading") =>
                    /\ new = <<SearchBlock(<<>>, "loading", 0)>> \o old
                    /\ Persisted(p.id)
                    /\ attachments' = attachments
               /\ Goes(p, "search_reading") =>
                    /\ old[1] = SearchBlock(<<>>, "loading", 0)
                    /\ new = [old EXCEPT ![1] =
                                SearchBlock(<<>>, "reading", Len(After(p).results))]
                    /\ Persisted(p.id)
                    /\ attachments' = attachments
                    /\ AttachmentsOf(attachments, p.id) = <<>>
               /\ Goes(p, "search_attachment") =>
                    /\ p.pc \in {"search_reading", "search_attachment"}
                    /\ new = old
                    /\ messages' = messages
                    /\ new[1] = SearchBlock(<<>>, "reading", Len(p.results))
                    /\ LET k == Len(AttachmentsOf(attachments, p.id)) + 1
                       IN attachments' =
                            Append(attachments,
                                   [messageId |-> p.id, type |-> "search_result",
                                    content |-> p.results[k]])
               /\ Goes(p, "search_success") =>
                    /\ p.pc \in {"search_reading", "search_attachment"}
                    /\ old[1] = SearchBlock(<<>>, "reading", Len(p.results))
                    /\ new = [old EXCEPT ![1] =
                                SearchBlock(<<>>, "success", Len(p.results))]
                    /\ Persisted(p.id)
                    /\ attachments' = attachments
                    /\ AttachmentsOf(attachments, p.id) =
                         [i \in 1..Len(p.results) |->
                            [messageId |-> p.id, type |-> "search_result",
                             content |-> p.results[i]]]]_vars

\* A search with two results has stored its success.
C23_Witness ==
  \E p \in procs :
    /\ p.kind = "ssc" /\ p.pc = "search_success"
    /\ Len(p.results) = 2
    /\ Len(AttachmentsOf(attachments, p.id)) = 2
    /\ assistantMessage[p.id].content[1] = SearchBlock(<<>>, "success", 2)

\* ------------------------------------------------------------------ claims on a stop during the assembly

\* stop(id) found the entry of id and has returned.
Stopped(log, calls, id) ==
  \E k \in 1..Len(log) :
    /\ log[k].kind = "stop" /\ log[k].id = id /\ log[k].found
    /\ ~(\E q \in calls : q.n = k)

\* C25: once stop(id) has returned, id has no entry in the table, in the
\* state it returns in and in every later one, and the provider's
\* startStreamCompletion is not called with id afterwards.
C25_StoppedStaysStopped ==
  [][\A id \in 1..AssistantMessageId :
       /\ Stopped(delivered', procs', id) => ~Has(generatingMessages', id)
       /\ Stopped(delivered, procs, id) =>
            \A i \in (Len(providerCalls) + 1)..Len(providerCalls') :
              ~(providerCalls'[i].call = "startStreamCompletion"
                /\ providerCalls'[i].eventId = id)]_vars

\* ------------------------------------------------------------------ claims on the token times

\* The arrival number k is a handled token event of message id carrying text
\* (of the kind `type`, or of any kind).
Carries(log, k, id, type) ==
  /\ log[k].kind = "RESPONSE" /\ log[k].id = id /\ log[k].found
  /\ IF type = "any" THEN log[k].content # <<>> \/ log[k].reasoning_content # <<>>
     ELSE log[k].reasoning_content # <<>>

\* The first arrival of that sort.
FirstCarrying(log, k, id, type) ==
  /\ k \in 1..Len(log)
  /\ Carries(log, k, id, type)
  /\ \A j \in 1..(k - 1) : ~Carries(log, j, id, type)

\* The handler of arrival k runs in this step (at the arrival or resumed).
Runs(k) == (Arrives /\ k = Len(delivered')) \/ (\E p \in procs : p.n = k /\ Resumed(p))

\* firstTokenTime is set once, by the first token event carrying text.
FirstTokenTimeSetOnce(id) ==
  state'[id].firstTokenTime # state[id].firstTokenTime =>
    /\ state[id].firstTokenTime = Null
    /\ state'[id].firstTokenTime = now
    /\ \E k \in 1..Len(delivered') : Runs(k) /\ FirstCarrying(delivered', k, id, "any")

\* reasoningStartTime is set once, by the first token event carrying
\* reasoning_content.
ReasoningStartTimeSetOnce(id) ==
  state'[id].reasoningStartTime # state[id].reasoningStartTime =>
    /\ state[id].reasoningStartTime = Null
    /\ state'[id].reasoningStartTime = now
    /\ \E k \in 1..Len(delivered') :
         Runs(k) /\ FirstCarrying(delivered', k, id, "reasoning_content")

\* lastReasoningTime is set by every reasoning token, by nothing else, and is
\* never earlier than reasoningStartTime.
LastReasoningTimeFollows(id) ==
  /\ \A k \in 1..Len(delivered') :
       (TokenApplied(k) /\ Carries(delivered', k, id, "reasoning_content"))
         => state'[id].lastReasoningTime = now
  /\ state'[id].lastReasoningTime # state[id].lastReasoningTime =>
       \E k \in 1..Len(delivered') :
         TokenApplied(k) /\ Carries(delivered', k, id, "reasoning_content")
  /\ state'[id].lastReasoningTime # Null =>
       /\ state'[id].reasoningStartTime # Null
       /\ state'[id].lastReasoningTime >= state'[id].reasoningStartTime

\* C24: within one generation firstTokenTime is set by the first token event
\* that carries content or reasoning_content and reasoningStartTime by the
\* first one that carries reasoning_content, and neither is changed again;
\* lastReasoningTime is set on every reasoning token and is never earlier
\* than reasoningStartTime; an event carrying neither sets none of them.
C24_TokenTimesSetOnce ==
  [][\A id \in MsgIds :
       /\ FirstTokenTimeSetOnce(id)
       /\ ReasoningStartTimeSetOnce(id)
       /\ LastReasoningTimeFollows(id)]_vars

\* ------------------------------------------------------------------ claims on the error finalization

IsPrefix(short, long) ==
  Len(short) <= Len(long) /\ SubSeq(long, 1, Len(short)) = short

\* C28: the list that the finalization of an error event stores holds the
\* content and reasoning_content blocks the message had when the error event
\* arrived (p.len0 blocks), at their places and with their text, and the
\* error block of this event as its last block.
C28_ErrorKeepsAccumulatedBlocks ==
  [][\A p \in procs :
       (p.kind = "ERROR" /\ Goes(p, "hme_edit")) =>
         LET stored == Parse(messages'[p.id].content)
             memory == assistantMessage[p.id].content
         IN /\ stored # <<>>
            /\ stored[Len(stored)] = Block("error", p.errorMessage, "error")
            /\ \A i \in 1..p.len0 :
                 IsTextBlock(memory[i]) =>
                   /\ i < Len(stored)
                   /\ stored[i].type = memory[i].type
                   /\ stored[i].content # <<>>
                   /\ IsPrefix(stored[i].content, memory[i].content)]_vars

\* ------------------------------------------------------------------ claims on overlapping finalizations

\* Arrival k is an end event, error event or stop call of a message whose
\* finalization an earlier end, error or stop has already started.
LaterFinalizer(log, k) ==
  /\ log[k].kind \in Finalizers
  /\ \E j \in 1..(k - 1) :
       log[j].kind \in Finalizers /\ log[j].id = log[k].id /\ log[j].found

\* C26: of the end events, error events and stop calls of one message only
\* the first to start takes effect: no step of a later one changes the
\* stored status or block list of the message or its block list in memory.
C26_FinalizedOnce ==
  [][\A k \in 1..Len(delivered') :
       (Runs(k) /\ LaterFinalizer(delivered', k)) =>
         /\ messages'[delivered'[k].id] = messages[delivered'[k].id]
         /\ assistantMessage'[delivered'[k].id] = assistantMessage[delivered'[k].id]]_vars

\* ------------------------------------------------------------------ claims on recovery during calls

\* C29: an assistant message that generateAIResponse created after the
\* presenter was constructed (a row that was not there at startup, under its
\* user message) never has status error and never holds the
\* session-interrupted error block, whatever the recovery pass does.
C29_RecoverySparesNewMessages ==
  \A id \in DOMAIN messages \ DOMAIN startupMessages :
    (messages[id].role = "assistant" /\ messages[id].parentId # 0) =>
      /\ messages[id].status # "error"
      /\ \A i \in 1..Len(Parse(messages[id].content)) :
           Parse(messages[id].content)[i] # Block("error", SessionInterrupted, "error")

\* ------------------------------------------------------------------ claims on the correlation id

\* The assistant message of the most recent send of conversation c: the one
\* a sendMessage of the run created, or the one that was there at the start.
MostRecentAssistant(c) ==
  LET created == {q.created : q \in {q \in procs : q.kind = "sendMessage"
                                                  /\ q.conversationId = c
                                                  /\ q.created # Null}}
  IN IF created = {} THEN AssistantMessageId
     ELSE CHOOSE id \in created : \A other \in created : other <= id

\* The generations of conversation 1 before the most recent one have reached
\* a terminal outcome: there is none, or the first call of
\* startStreamCompletion failed in its assembly and was finalized by the
\* catch of line 948.
EarlierGenerationsOver ==
  \/ MostRecentAssistant(1) = AssistantMessageId
  \/ \E i \in 1..Len(thrown) : thrown[i].n = 1 /\ thrown[i].caught

\* C27: when startStreamCompletion calls the provider, with every earlier
\* generation of the conversation over, the correlation id is the id of the
\* assistant message the most recent send of the conversation created.
C27_CorrelatesMostRecentMessage ==
  [][\A p \in procs :
       (p.kind = "ssc" /\ Goes(p, "ssc_provider") /\ p.conversationId = 1
        /\ EarlierGenerationsOver) =>
         /\ providerCalls'[Len(providerCalls')].call = "startStreamCompletion"
         /\ providerCalls'[Len(providerCalls')].eventId
              = MostRecentAssistant(p.conversationId)]_vars

\* ------------------------------------------------------------------ claims on the search block at the end

\* C30: when the end handler stores the block list of a message whose stored
\* list begins with the search block of a failed search (status error, the
\* stringified error as content), the list it stores begins with that same
\* block, status and content unchanged.
C30_SearchErrorSurvivesEnd ==
  [][\A p \in procs :
       (p.kind = "END" /\ Goes(p, "end_edit")) =>
         LET before == Parse(messages[p.id].content)
             stored == Parse(messages'[p.id].content)
         IN (before # <<>> /\ IsSearchError(before[1])) =>
              (stored # <<>> /\ stored[1] = before[1])]_vars

====
